---- MODULE Spec2Model ----
(***************************************************************************)
(* A model of the FlexNet client (src/client.py, src/file.py,              *)
(* src/licenses.py).                                                       *)
(*                                                                         *)
(* Two levels are modelled.  The byte level (part A) holds the frame       *)
(* header, the check byte and the CRC, and the parser's decisions on a     *)
(* response buffer.  The conversation level (part B) holds the sweep       *)
(* ManagerClient.query_everything drives over the manager connection and   *)
(* the vendor connections, with every reply chosen by the peer.            *)
(***************************************************************************)
EXTENDS Integers, Sequences, FiniteSets, TLC

VARIABLES
    response,   \* the buffer handed to _Client._request_parse
    parsed,     \* what _request_parse made of it: "pending", or its outcome
    pc,         \* where ManagerClient.query_everything stands
    mgr,        \* the ManagerClient object
    vendors,    \* ManagerClient.vendors: the VendorClient objects, in order
    conns,      \* every socket opened so far, with what was sent and read on it
    redirects,  \* the dict `vendors` of query_vendor_details
    todo,       \* the keys of that dict not yet iterated by its second loop
    vi,         \* the first loop's position in server_params["vendors"]
    li,         \* the position of the status loops in the vendor's licenses
    cur,        \* the status being built by query_vendor_license_status
    err,        \* where the exception that ended the sweep was raised
    q,          \* one call of _Client._query, recv by recv, and its socket
    fl,         \* one call of flexnet_parse: the text and what came of it
    cat         \* one call of VendorClient.query_vendor_licenses and its reply

parseVars == <<response, parsed, q, fl, cat>>
convVars == <<pc, mgr, vendors, conns, redirects, todo, vi, li, cur, err>>
vars == <<response, parsed, pc, mgr, vendors, conns, redirects, todo, vi, li, cur, err, q, fl, cat>>

(***************************************************************************)
(* Part A.  Bytes, slices and the wire constants                           *)
(***************************************************************************)

\* Python's s[a:b] for 0 <= a, 0 <= b on a sequence (clamped, never failing)
Slice(s, a, b) ==
    IF a >= Len(s) \/ b <= a THEN <<>>
    ELSE SubSeq(s, a + 1, IF b < Len(s) THEN b ELSE Len(s))

\* Python's s[a:]
SliceFrom(s, a) == Slice(s, a, Len(s))

\* the sum of s[a..b], halving the range
RECURSIVE SumRange(_, _, _)
SumRange(s, a, b) ==
    IF a > b THEN 0
    ELSE IF a = b THEN s[a]
    ELSE SumRange(s, a, (a + b) \div 2) + SumRange(s, (a + b) \div 2 + 1, b)

SumBytes(s) == SumRange(s, 1, Len(s))

RECURSIVE Xor(_, _)
Xor(a, b) ==
    IF a = 0 THEN b
    ELSE IF b = 0 THEN a
    ELSE (((a % 2) + (b % 2)) % 2) + 2 * Xor(a \div 2, b \div 2)

RECURSIVE Pow2(_)
Pow2(n) == IF n = 0 THEN 1 ELSE 2 * Pow2(n - 1)

HEADERLEN == 20
TYPE_REQLIC1 == 78      \* 0x004e
TYPE_REQ == 264         \* 0x0108
TYPE_HELLO == 270       \* 0x010e
TYPE_STUBR == 275       \* 0x0113
TYPE_REQLIC2 == 276     \* 0x0114
TYPE_LICSET == 295      \* 0x0127
TYPE_STUB2 == 296       \* 0x0128
TYPE_STUB == 315        \* 0x013b
TYPE_REQLIC == 316      \* 0x013c
TYPE_RESP == 326        \* 0x0146

PREFIX_MODERN == 47     \* 0x2f
PREFIX_CHUNK == 76      \* 0x4c
PREFIX_TERM == 78       \* 0x4e
PREFIXES == {PREFIX_MODERN, PREFIX_CHUNK, PREFIX_TERM}

\* HEADERLENS: the types the parser knows, and the header length of each
HEADERLENS ==
    (TYPE_REQLIC1 :> 20) @@ (TYPE_HELLO :> 24) @@ (TYPE_STUBR :> 20) @@
    (TYPE_REQLIC2 :> 20) @@ (TYPE_STUB2 :> 20) @@ (TYPE_RESP :> 24)

VER_NEW == <<11, 10>>

CRCWIDTH == 14
CRCPOLY == 11927        \* 0x2e97

(***************************************************************************)
(* The CRC: pycrc.Crc(width=14, poly=0x2e97, reflect_in=True, xor_in=0,    *)
(* reflect_out=True, xor_out=0).table_driven, computed bit by bit.         *)
(***************************************************************************)

RECURSIVE Reflect(_, _)
Reflect(v, width) ==
    IF width = 0 THEN 0
    ELSE (v % 2) * Pow2(width - 1) + Reflect(v \div 2, width - 1)

CrcPolyReflected == Reflect(CRCPOLY, CRCWIDTH)

RECURSIVE CrcShift(_, _)
CrcShift(reg, n) ==
    IF n = 0 THEN reg
    ELSE CrcShift(IF reg % 2 = 1 THEN Xor(reg \div 2, CrcPolyReflected)
                                 ELSE reg \div 2,
                  n - 1)

RECURSIVE table_driven(_, _)
table_driven(reg, data) ==
    IF data = <<>> \/ reg < 0 THEN reg
    ELSE table_driven(CrcShift(Xor(reg, Head(data)), 8), Tail(data))

crc(data) == table_driven(0, data)

\* struct.pack("!H", v)
PackH(v) == <<v \div 256, v % 256>>
\* struct.pack("!L", v)
PackL(v) == <<(v \div 16777216) % 256, (v \div 65536) % 256, (v \div 256) % 256, v % 256>>
\* struct.unpack("!H", two bytes)
UnpackH(s) == s[1] * 256 + s[2]

\* _Client._checkbytes: check byte, CRC high, CRC low
_checkbytes(data) ==
    LET crc_str == PackH(crc(data))
        cb == (SumBytes(crc_str \o Slice(data, 0, 16)) + 47) % 256
    IN  <<cb>> \o crc_str

\* _Client._header_create, the timestamp given
_header_create(data, reqtype, timestamp) ==
    LET reqlen == Len(data) + HEADERLEN
        header == PackH(reqlen) \o PackH(reqtype) \o PackL(timestamp)
                  \o <<0, 0, 0, 0, 0, 0, 0, 0>>
    IN  <<PREFIX_MODERN>> \o _checkbytes(header \o data) \o header

(***************************************************************************)
(* Byte-string helpers of the parser (Python 2 str methods)                *)
(***************************************************************************)

\* 0 when x does not occur in s, else the first position (1-based) of x
IndexOf(s, x) ==
    IF \E i \in 1..Len(s) : s[i] = x
    THEN CHOOSE i \in 1..Len(s) : s[i] = x /\ \A j \in 1..(i - 1) : s[j] # x
    ELSE 0

\* s.split(sep) for a one-byte separator
RECURSIVE Split(_, _)
Split(s, sep) ==
    LET i == IndexOf(s, sep)
    IN  IF i = 0 THEN <<s>>
        ELSE <<SubSeq(s, 1, i - 1)>> \o Split(SubSeq(s, i + 1, Len(s)), sep)

\* s.split(sep, 1)
Split1(s, sep) ==
    LET i == IndexOf(s, sep)
    IN  IF i = 0 THEN <<s>>
        ELSE <<SubSeq(s, 1, i - 1), SubSeq(s, i + 1, Len(s))>>

\* s.lstrip / s.rstrip / s.strip for a set of bytes
RECURSIVE LStrip(_, _)
LStrip(s, chars) ==
    IF s # <<>> /\ Head(s) \in chars THEN LStrip(Tail(s), chars) ELSE s

RECURSIVE RStrip(_, _)
RStrip(s, chars) ==
    IF s # <<>> /\ s[Len(s)] \in chars THEN RStrip(SubSeq(s, 1, Len(s) - 1), chars)
    ELSE s

Strip(s, chars) == RStrip(LStrip(s, chars), chars)

\* filter(len, fields)
NonEmpty(fields) == SelectSeq(fields, LAMBDA f : f # <<>>)

Whitespace == {9, 10, 11, 12, 13, 32}
Digits == 48..57

\* whether int(s) succeeds: optional blanks, an optional sign, decimal digits
IsInt(s) ==
    LET t == Strip(s, Whitespace)
        d == IF t # <<>> /\ Head(t) \in {43, 45} THEN Tail(t) ELSE t
    IN  d # <<>> /\ \A i \in 1..Len(d) : d[i] \in Digits

RECURSIVE DigitsValue(_, _)
DigitsValue(d, acc) ==
    IF d = <<>> THEN acc ELSE DigitsValue(Tail(d), 10 * acc + (Head(d) - 48))

\* int(s), where IsInt(s)
IntOf(s) ==
    LET t == Strip(s, Whitespace)
        neg == t # <<>> /\ Head(t) = 45
        d == IF t # <<>> /\ Head(t) \in {43, 45} THEN Tail(t) ELSE t
    IN  IF neg THEN 0 - DigitsValue(d, 0) ELSE DigitsValue(d, 0)

(***************************************************************************)
(* _Client._header_parse and _Client._header_validate                      *)
(***************************************************************************)

\* a validation that compares the check byte alone and not the CRC
_header_validate_CheckByteOnly(data) ==
    Slice(_checkbytes(SliceFrom(data, 4)), 0, 1) = Slice(data, 1, 2)

\* _Client._header_validate: TRUE when no ValueError is raised
_header_validate(data) == _checkbytes(SliceFrom(data, 4)) = Slice(data, 1, 4)

HeaderError == [err |-> TRUE, prefix |-> 0, type |-> 0, len |-> 0, srv_ver |-> <<0, 0>>]

\* _Client._header_parse on a non-empty buffer; err stands for a raised
\* IndexError / struct.error / KeyError / ValueError
_header_parse(data) ==
    LET prefix == data[1]
    IN  IF prefix = PREFIX_CHUNK
        THEN [err |-> FALSE, prefix |-> prefix, type |-> 0, len |-> 0, srv_ver |-> <<0, 0>>]
        ELSE IF prefix = PREFIX_TERM
        THEN [err |-> FALSE, prefix |-> prefix, type |-> 0, len |-> 2, srv_ver |-> <<0, 0>>]
        ELSE IF Len(data) < 8 THEN HeaderError
        ELSE LET type == UnpackH(Slice(data, 6, 8))
             IN  IF type \notin DOMAIN HEADERLENS THEN HeaderError
                 ELSE IF type \in {TYPE_HELLO, TYPE_RESP} /\ Len(data) < 24 THEN HeaderError
                 ELSE IF type = TYPE_REQLIC2 /\ Len(data) < 12 THEN HeaderError
                 ELSE IF ~_header_validate(data) THEN HeaderError
                 ELSE [err |-> FALSE, prefix |-> prefix, type |-> type,
                       len |-> HEADERLENS[type],
                       srv_ver |-> IF type = TYPE_HELLO THEN <<data[21], data[22]>>
                                   ELSE <<0, 0>>]

(***************************************************************************)
(* _Client._request_parse on a response buffer.  A message is a record     *)
(* holding the keys the code sets (keys) and their values; err stands for  *)
(* an exception leaving _request_parse, in which case nothing is returned. *)
(***************************************************************************)

NoMessage ==
    [err |-> FALSE, keys |-> {}, prefix |-> 0, type |-> 0, text |-> <<>>,
     hostname |-> <<>>, daemon |-> <<>>, server_version |-> <<0, 0>>,
     legacy |-> FALSE, len |-> 0, vendor_hostname |-> <<>>, vendor_port |-> 0,
     used |-> 0, total |-> 0, timestamp |-> 0, group |-> FALSE]

ParseError == [NoMessage EXCEPT !.err = TRUE]

\* the 134-byte payload slices of the 147-byte chunks of a legacy response
RECURSIVE ChunkText(_)
ChunkText(resp) ==
    IF resp = <<>> THEN <<>>
    ELSE Slice(resp, 13, 147) \o ChunkText(SliceFrom(resp, 147))

\* ver[0] << 8 | ver[1] < (VER_NEW[0] << 8) | VER_NEW[1]
VersionIsOld(ver) == ver[1] * 256 + ver[2] < VER_NEW[1] * 256 + VER_NEW[2]

ParseHello(resp, base) ==
    LET txt == Split(Strip(SliceFrom(resp, base.len), {0}), 0)
    IN  IF Len(txt) < 2 THEN ParseError
        ELSE [base EXCEPT !.keys = {"hostname", "daemon", "server_version"},
                          !.hostname = txt[1], !.daemon = txt[2],
                          !.legacy = VersionIsOld(base.server_version)]

ParseStubr(resp, base) ==
    LET parts == Split1(SliceFrom(resp, base.len), 0)
    IN  IF Len(parts) < 2 THEN ParseError
        ELSE IF Len(parts[2]) < 4 THEN ParseError
        ELSE [base EXCEPT !.keys = {"vendor_hostname", "vendor_port"},
                          !.vendor_hostname = parts[1],
                          !.vendor_port = ((parts[2][1] * 256 + parts[2][2]) * 256
                                           + parts[2][3]) * 256 + parts[2][4]]

\* map(strip_binary, fields)
RECURSIVE StripBinary(_)
StripBinary(fields) ==
    IF fields = <<>> THEN <<>>
    ELSE <<Strip(Head(fields), {1, 7})>> \o StripBinary(Tail(fields))

ParseStub2(resp, base) ==
    [base EXCEPT !.keys = {"text"},
                 !.text = NonEmpty(StripBinary(Split(SliceFrom(resp, base.len), 0)))]

ParseReqlic1(resp, base) ==
    LET payload == SliceFrom(resp, base.len)
        fields == NonEmpty(Split(SliceFrom(payload, 2), 0))
    IN  IF Len(payload) < 2 THEN ParseError
        ELSE IF Len(fields) < 3 THEN ParseError
        ELSE IF \E i \in 1..3 : ~IsInt(fields[i]) THEN ParseError
        ELSE [base EXCEPT !.keys = {"prefix", "used", "total", "timestamp"},
                          !.used = IntOf(fields[1]), !.total = IntOf(fields[2]),
                          !.timestamp = IntOf(fields[3])]

ParseReqlic2(resp, base) ==
    LET segments == Split1(SliceFrom(resp, base.len), 1)
        txtfields == Split(segments[1], 0)
    IN  IF Len(segments) < 2 THEN ParseError
        ELSE IF SumBytes(segments[2]) = 0 /\ txtfields[1] = <<>> THEN ParseError
        ELSE IF SumBytes(segments[2]) = 0 /\ txtfields[1][1] = 71
        THEN [base EXCEPT !.keys = {"group_reservation"}, !.group = TRUE]
        ELSE IF Len(txtfields) < 4 \/ Len(segments[2]) < 16 THEN ParseError
        ELSE [base EXCEPT !.keys = {"user", "host", "tty", "version", "time", "number"}]

ParseOther(resp, base) ==
    [base EXCEPT !.keys = {"text"},
                 !.text = NonEmpty(Split(Strip(SliceFrom(resp, base.len), {0}), 0))]

\* _Client._request_parse
_request_parse(resp) ==
    LET header == _header_parse(resp)
        base == [NoMessage EXCEPT !.prefix = header.prefix, !.type = header.type,
                                  !.len = header.len,
                                  !.server_version = header.srv_ver]
    IN  IF header.err THEN ParseError
        ELSE IF header.prefix = PREFIX_CHUNK
        THEN [base EXCEPT !.keys = {"text"},
                          !.text = Split(Strip(ChunkText(resp), {0}), 0)]
        ELSE IF header.prefix = PREFIX_TERM THEN ParseOther(resp, base)
        ELSE IF header.type = TYPE_HELLO THEN ParseHello(resp, base)
        ELSE IF header.type = TYPE_STUBR THEN ParseStubr(resp, base)
        ELSE IF header.type = TYPE_STUB2 THEN ParseStub2(resp, base)
        ELSE IF header.type = TYPE_REQLIC1 THEN ParseReqlic1(resp, base)
        ELSE IF header.type = TYPE_REQLIC2 THEN ParseReqlic2(resp, base)
        ELSE ParseOther(resp, base)

(***************************************************************************)
(* Part C.  The license-file grammar (src/file.py).  A text is a byte      *)
(* string; a token is a byte string; a dict is a function from its keys    *)
(* (byte strings) to its values.                                           *)
(***************************************************************************)

\* None where a string is expected, and None where a list of tokens is
None == <<-1>>
NoneList == <<None>>

K_feature == <<102, 101, 97, 116, 117, 114, 101>>
K_vendor == <<118, 101, 110, 100, 111, 114>>
K_version == <<118, 101, 114, 115, 105, 111, 110>>
K_expdate == <<101, 120, 112, 100, 97, 116, 101>>
K_quantity == <<113, 117, 97, 110, 116, 105, 116, 121>>
K_notice == <<110, 111, 116, 105, 99, 101>>
K_issued == <<105, 115, 115, 117, 101, 100>>
K_start == <<115, 116, 97, 114, 116>>
K_sign == <<115, 105, 103, 110>>
K_others == <<111, 116, 104, 101, 114, 115>>
T_uncounted == <<117, 110, 99, 111, 117, 110, 116, 101, 100>>
T_INCREMENT == <<73, 78, 67, 82, 69, 77, 69, 78, 84>>
T_FEATURE == <<70, 69, 65, 84, 85, 82, 69>>
T_SERVER == <<83, 69, 82, 86, 69, 82>>
T_VENDOR == <<86, 69, 78, 68, 79, 82>>
T_DAEMON == <<68, 65, 69, 77, 79, 78>>
T_USE_SERVER == <<85, 83, 69, 95, 83, 69, 82, 86, 69, 82>>
T_EQ == <<61>>

\* a faulty dict assignment that keeps the value a key already has
Put_KeepFirst(d, k, v) == [x \in (DOMAIN d) \cup {k} |-> IF x \in DOMAIN d THEN d[x] ELSE v]

\* d[k] = v on a dict
Put(d, k, v) == [x \in (DOMAIN d) \cup {k} |-> IF x = k THEN v ELSE d[x]]
\* d.get(k), none standing for None
Get(d, k, none) == IF k \in DOMAIN d THEN d[k] ELSE none
\* list.pop(p) leaves this (p is 1-based)
Remove(s, p) == SubSeq(s, 1, p - 1) \o SubSeq(s, p + 1, Len(s))

\* text.replace('\r\n', '\n')
RECURSIVE ReplaceCrLf(_)
ReplaceCrLf(t) ==
    IF t = <<>> THEN <<>>
    ELSE IF Len(t) >= 2 /\ t[1] = 13 /\ t[2] = 10
    THEN <<10>> \o ReplaceCrLf(SubSeq(t, 3, Len(t)))
    ELSE <<Head(t)>> \o ReplaceCrLf(Tail(t))

\* text.replace('\\\n', '')
RECURSIVE JoinContinued(_)
JoinContinued(t) ==
    IF t = <<>> THEN <<>>
    ELSE IF Len(t) >= 2 /\ t[1] = 92 /\ t[2] = 10
    THEN JoinContinued(SubSeq(t, 3, Len(t)))
    ELSE <<Head(t)>> \o JoinContinued(Tail(t))

\* re.sub(r'\s+', ' ', line)
RECURSIVE CollapseSpace(_)
CollapseSpace(l) ==
    IF l = <<>> THEN <<>>
    ELSE IF Head(l) \in Whitespace
    THEN <<32>> \o CollapseSpace(LStrip(l, Whitespace))
    ELSE <<Head(l)>> \o CollapseSpace(Tail(l))

\* shlex.wordchars, with ".,-/:;+^" added
WordChars ==
    (97..122) \cup (65..90) \cup (48..57) \cup {95} \cup {46, 44, 45, 47, 58, 59, 43, 94}
ShlexWhitespace == {32, 9, 13, 10}
ShlexQuotes == {39, 34}
ShlexCommenters == {35}

\* shlex.shlex(line).get_token() until eof, on one line.  st is the lexer's
\* state: 0 between tokens, 1 inside a word, or the quote byte inside a
\* quoted string.  An open quote at the end of the line raises ValueError.
RECURSIVE Shlex(_, _, _, _)
Shlex(rest, st, tok, out) ==
    IF rest = <<>>
    THEN IF st = 0 THEN [err |-> FALSE, tokens |-> out]
         ELSE IF st = 1 THEN [err |-> FALSE, tokens |-> Append(out, tok)]
         ELSE [err |-> TRUE, tokens |-> out]
    ELSE LET c == Head(rest)
         IN  IF st = 0
             THEN IF c \in ShlexWhitespace THEN Shlex(Tail(rest), 0, <<>>, out)
                  ELSE IF c \in ShlexCommenters THEN Shlex(<<>>, 0, <<>>, out)
                  ELSE IF c \in WordChars THEN Shlex(Tail(rest), 1, <<c>>, out)
                  ELSE IF c \in ShlexQuotes THEN Shlex(Tail(rest), c, <<c>>, out)
                  ELSE Shlex(Tail(rest), 0, <<>>, Append(out, <<c>>))
             ELSE IF st = 1
             THEN IF c \in ShlexWhitespace THEN Shlex(Tail(rest), 0, <<>>, Append(out, tok))
                  ELSE IF c \in ShlexCommenters THEN Shlex(<<>>, 1, tok, out)
                  ELSE IF c \in WordChars \cup ShlexQuotes
                  THEN Shlex(Tail(rest), 1, Append(tok, c), out)
                  ELSE Shlex(rest, 0, <<>>, Append(out, tok))
             ELSE IF c = st THEN Shlex(Tail(rest), 0, <<>>, Append(out, Append(tok, c)))
                  ELSE Shlex(Tail(rest), st, Append(tok, c), out)

RECURSIVE LexLines(_)
LexLines(lines) ==
    IF lines = <<>> THEN [err |-> FALSE, lines |-> <<>>]
    ELSE LET first == Shlex(CollapseSpace(Head(lines)), 0, <<>>, <<>>)
             others == LexLines(Tail(lines))
         IN  IF first.err \/ others.err THEN [err |-> TRUE, lines |-> <<>>]
             ELSE [err |-> FALSE,
                   lines |-> IF first.tokens = <<>> THEN others.lines
                             ELSE <<first.tokens>> \o others.lines]

\* _flexnet_lex
_flexnet_lex(text) == LexLines(Split(JoinContinued(ReplaceCrLf(text)), 10))

\* str.lower()
RECURSIVE Lower(_)
Lower(t) ==
    IF t = <<>> THEN <<>>
    ELSE <<IF Head(t) \in 65..90 THEN Head(t) + 32 ELSE Head(t)>> \o Lower(Tail(t))

\* the inner loop of the INCREMENT branch:
\*   while len(opts) > 1 and opts[1] == '=': val += opts.pop(1); val += opts.pop(1)
RECURSIVE Continuation(_, _)
Continuation(opts, val) ==
    IF Len(opts) > 1 /\ opts[2] = T_EQ
    THEN IF Len(opts) < 3 THEN [err |-> TRUE, opts |-> opts, val |-> val]
         ELSE Continuation(Remove(Remove(opts, 2), 2), val \o T_EQ \o opts[3])
    ELSE [err |-> FALSE, opts |-> opts, val |-> val]

\* the outer loop of the INCREMENT branch: while opts.count('=') > 0: ...
RECURSIVE OptsLoop(_, _)
OptsLoop(opts, lic) ==
    LET p == IndexOf(opts, T_EQ)
    IN  IF p = 0 THEN [err |-> FALSE, opts |-> opts, lic |-> lic]
        ELSE IF p + 1 > Len(opts) THEN [err |-> TRUE, opts |-> opts, lic |-> lic]
        ELSE LET val == Strip(opts[p + 1], {34})
                 opts2 == Remove(Remove(opts, p + 1), p)
                 kpos == IF p = 1 THEN Len(opts2) ELSE p - 1
             IN  IF opts2 = <<>> THEN [err |-> TRUE, opts |-> opts, lic |-> lic]
                 ELSE LET key == Lower(Strip(opts2[kpos], {34}))
                          cont == Continuation(Remove(opts2, kpos), val)
                      IN  IF cont.err THEN [err |-> TRUE, opts |-> opts, lic |-> lic]
                          ELSE OptsLoop(cont.opts, Put(lic, key, cont.val))

\* the INCREMENT / FEATURE branch of _flexnet_parse on one line
ParseLicenseLine(line) ==
    IF Len(line) < 6 THEN [err |-> TRUE, lic |-> <<>>]
    ELSE IF line[6] # T_uncounted /\ ~IsInt(line[6]) THEN [err |-> TRUE, lic |-> <<>>]
    ELSE LET lic0 == (K_feature :> line[2]) @@ (K_vendor :> line[3]) @@
                     (K_version :> line[4]) @@ (K_expdate :> line[5]) @@
                     (K_quantity :> IF line[6] = T_uncounted THEN 0 ELSE IntOf(line[6]))
             r == OptsLoop(SubSeq(line, 7, Len(line)), lic0)
         IN  IF r.err THEN [err |-> TRUE, lic |-> <<>>]
             ELSE [err |-> FALSE,
                   lic |-> IF Len(r.opts) > 0 THEN Put(r.lic, K_others, r.opts)
                           ELSE r.lic]

\* the SERVER branch: equals-tokens after the hostid
RECURSIVE HostidLoop(_, _)
HostidLoop(opts, hostid) ==
    IF Len(opts) > 0 /\ opts[1] = T_EQ
    THEN IF Len(opts) < 2 THEN [err |-> TRUE, opts |-> opts, hostid |-> hostid]
         ELSE HostidLoop(SubSeq(opts, 3, Len(opts)), hostid \o T_EQ \o opts[2])
    ELSE [err |-> FALSE, opts |-> opts, hostid |-> hostid]

NoEntries ==
    [err |-> FALSE, use_server |-> FALSE, servers |-> <<>>, vendors |-> <<>>,
     licenses |-> <<>>]

\* _flexnet_parse: entries, or err for a raised IndexError / ValueError
RECURSIVE _flexnet_parse(_, _)
_flexnet_parse(lines, entries) ==
    IF lines = <<>> \/ entries.err THEN entries
    ELSE LET line == Head(lines)
             bad == [entries EXCEPT !.err = TRUE]
             next ==
                IF line[1] = T_USE_SERVER THEN [entries EXCEPT !.use_server = TRUE]
                ELSE IF line[1] = T_SERVER
                THEN IF Len(line) < 3 THEN bad
                     ELSE LET h == HostidLoop(SubSeq(line, 4, Len(line)), line[3])
                          IN  IF h.err THEN bad
                              ELSE IF Len(h.opts) > 0 /\ ~IsInt(h.opts[1]) THEN bad
                              ELSE [entries EXCEPT !.servers =
                                      Append(@, [host |-> line[2], hostid |-> h.hostid,
                                                 port |-> IF Len(h.opts) > 0
                                                          THEN IntOf(h.opts[1]) ELSE -1])]
                ELSE IF line[1] \in {T_VENDOR, T_DAEMON}
                THEN IF Len(line) < 2 THEN bad
                     ELSE [entries EXCEPT !.vendors =
                             Append(@, [vendor |-> line[2],
                                        vendor_daemon_path |->
                                            IF Len(line) > 2 THEN line[3] ELSE None])]
                ELSE IF line[1] \in {T_INCREMENT, T_FEATURE}
                THEN LET r == ParseLicenseLine(line)
                     IN  IF r.err THEN bad
                         ELSE [entries EXCEPT !.licenses = Append(@, r.lic)]
                ELSE entries
         IN  _flexnet_parse(Tail(lines), next)

\* flexnet_parse
flexnet_parse(text) ==
    LET lexed == _flexnet_lex(text)
    IN  IF lexed.err THEN [NoEntries EXCEPT !.err = TRUE]
        ELSE _flexnet_parse(lexed.lines, NoEntries)

(***************************************************************************)
(* src/licenses.py                                                         *)
(***************************************************************************)

NoStatus == [keys |-> {}, used |-> 0, total |-> 0, timestamp |-> 0, usage |-> <<>>]

\* License.__init__ on a license dict
License(license_data) ==
    [feature |-> license_data[K_feature],
     vendor |-> license_data[K_vendor],
     version |-> license_data[K_version],
     expdate |-> license_data[K_expdate],
     quantity |-> license_data[K_quantity],
     notice |-> Get(license_data, K_notice, None),
     issued |-> Get(license_data, K_issued, None),
     start |-> Get(license_data, K_start, None),
     sign |-> Get(license_data, K_sign, None),
     others |-> Get(license_data, K_others, NoneList),
     status |-> NoStatus]

RECURSIVE Licenses(_)
Licenses(dicts) ==
    IF dicts = <<>> THEN <<>> ELSE <<License(Head(dicts))>> \o Licenses(Tail(dicts))

(***************************************************************************)
(* The response buffers _request_parse is tried on: a frame written as     *)
(* _header_create writes it, for a type and a body, with one byte of it    *)
(* possibly altered on the wire.                                           *)
(***************************************************************************)

MaxTimestamp == 1

BodyHello == <<11, 9, 0, 0, 104, 0, 100, 0>>
BodyStubr == <<104, 0, 0, 0, 110, 28>>
BodyReqlic1 == <<1, 2, 49, 0, 50, 0, 51, 0>>
BodyReqlic2 ==
    <<117, 0, 104, 0, 116, 0, 118, 0, 1, 0, 0, 0, 0, 0, 0, 0, 5, 0, 0, 0, 0, 0, 0, 0, 7>>
BodyText == <<0, 0, 0, 0, 97, 0, 98, 0>>

ParseBodies == {BodyHello, BodyStubr, BodyReqlic1, BodyReqlic2, BodyText, <<>>}
ParseTypes ==
    {TYPE_HELLO, TYPE_STUBR, TYPE_STUB2, TYPE_REQLIC1, TYPE_REQLIC2, TYPE_RESP, TYPE_REQ,
     TYPE_STUB, TYPE_LICSET, TYPE_REQLIC}

\* the buffer with the byte at position pos (1-based) altered; pos = 0 alters nothing
Tamper(buf, pos) ==
    IF pos = 0 \/ pos > Len(buf) THEN buf
    ELSE [buf EXCEPT ![pos] = (buf[pos] + 1) % 256]

TamperPositions == {0, 2, 3, 4, 6, 8, 22}

ParseInputs ==
    {Tamper(_header_create(b, t, ts) \o b, pos) :
        b \in ParseBodies, t \in ParseTypes, ts \in 0..MaxTimestamp,
        pos \in TamperPositions}


(***************************************************************************)
(* Part B.  The conversation: ManagerClient.query_everything, one action   *)
(* per _query call (a request sent, one frame read and parsed, and the     *)
(* code that follows up to the next _query).  The peer chooses every       *)
(* frame.  _query is taken here to hand over one whole frame as the peer   *)
(* wrote it; an exception ends the sweep (pc = "error"), as no caller      *)
(* catches it.                                                             *)
(***************************************************************************)

\* s.ljust(width, '\x00')
Ljust(s, width) ==
    IF Len(s) >= width THEN s ELSE s \o [i \in 1..(width - Len(s)) |-> 0]

\* str(n) for n >= 0
RECURSIVE Decimal(_)
Decimal(n) == IF n < 10 THEN <<48 + n>> ELSE Decimal(n \div 10) \o <<48 + (n % 10)>>

\* s.split(): the maximal runs of non-blank bytes
RECURSIVE SplitWs(_)
SplitWs(s) ==
    LET t == LStrip(s, Whitespace)
        n == IF \E i \in 1..Len(t) : t[i] \in Whitespace
             THEN CHOOSE i \in 1..Len(t) :
                    t[i] \in Whitespace /\ \A j \in 1..(i - 1) : t[j] \notin Whitespace
             ELSE Len(t) + 1
    IN  IF t = <<>> THEN <<>>
        ELSE <<SubSeq(t, 1, n - 1)>> \o SplitWs(SubSeq(t, n, Len(t)))

\* '\x00'.join(fields) + '\x00'
RECURSIVE JoinNul(_)
JoinNul(fields) ==
    IF fields = <<>> THEN <<>> ELSE Head(fields) \o <<0>> \o JoinNul(Tail(fields))

\* the values _Client.__init__ takes from the process: USER, gethostname()
\* and getpid(); and the ones it fixes: tty, arch and version
User == <<117>>                 \* "u"
LocalHost == <<119>>            \* "w"
Pid == <<52, 50>>               \* "42"
Tty == <<47, 100, 101, 118, 47, 112, 116, 115, 47, 49>>     \* "/dev/pts/1"
Arch == <<120, 54, 52, 95, 108, 115, 98>>                   \* "x64_lsb"
ClientVersion == <<11, 11>>

\* ''.join([d + '\x00' for d in data]) of _hello_pack, for the vendor given
HelloFields(vendor) ==
    Ljust(User, 20) \o <<0>> \o Ljust(LocalHost, 32) \o <<0>> \o Ljust(vendor, 10) \o <<0>>
    \o Ljust(Tty, 32) \o <<0>> \o Ljust(<<132>>, 12) \o <<0>> \o Ljust(Pid, 10) \o <<0>>
    \o Ljust(Arch, 12) \o <<0>>

\* a faulty _hello_pack that leaves the vendor field empty
_hello_pack_Blank(vendor) ==
    LET req == HelloFields(<<>>) \o ClientVersion \o <<55, 56, 0, 49, 52, 0>>
        cb == SumBytes(SubSeq(req, 1, Len(req) - 2)) % 256
    IN  <<104, cb, 49, 51>> \o req

\* _Client._hello_pack with self.vendor = vendor
_hello_pack(vendor) ==
    LET req == HelloFields(vendor) \o ClientVersion \o <<55, 56, 0, 49, 52, 0>>
        cb == SumBytes(SubSeq(req, 1, Len(req) - 2)) % 256
    IN  <<104, cb, 49, 51>> \o req

(***************************************************************************)
(* The peers.  Names are one byte long to keep the frames short.           *)
(***************************************************************************)

HostM == <<109>>        \* "m"
HostN == <<110>>        \* "n"
DaemonName == <<100>>   \* "d"
VendorA == <<97>>       \* "a"
VendorB == <<98>>       \* "b"
PathText == <<112>>     \* "p"
Cmd_getpaths == <<103, 101, 116, 112, 97, 116, 104, 115>>
Cmd_dlist == <<100, 108, 105, 115, 116>>
StubOldData == <<61, 218, 108, 49>>     \* '\x3d\xda\x6c\x31'
LicsetData == <<1, 0, 0, 0, 0>>         \* '\x01\x00\x00\x00\x00'

\* "INCREMENT f a 1 d 5 SIGN=S": a license of vendor a with a sign
LineSigned ==
    <<73, 78, 67, 82, 69, 77, 69, 78, 84, 32, 102, 32, 97, 32, 49, 32, 100, 32, 53,
      32, 83, 73, 71, 78, 61, 83>>
\* "INCREMENT g a 1 d 5 T": a license of vendor a with no sign and one other token
LineOthers ==
    <<73, 78, 67, 82, 69, 77, 69, 78, 84, 32, 103, 32, 97, 32, 49, 32, 100, 32, 53,
      32, 84>>
\* "INCREMENT h a 1 d 5": a license of vendor a with neither
LineBare ==
    <<73, 78, 67, 82, 69, 77, 69, 78, 84, 32, 104, 32, 97, 32, 49, 32, 100, 32, 53>>
\* "INCREMENT f": a line cut short, which _flexnet_parse cannot index
LineBroken == <<73, 78, 67, 82, 69, 77, 69, 78, 84, 32, 102>>
\* "INCREMENT f b 1 d 5 SIGN=S": a license of vendor b
LineVendorB ==
    <<73, 78, 67, 82, 69, 77, 69, 78, 84, 32, 102, 32, 98, 32, 49, 32, 100, 32, 53,
      32, 83, 73, 71, 78, 61, 83>>

\* the license file texts a manager may hold
FileTexts ==
    { LineSigned \o <<10>> \o LineOthers,
      LineVendorB \o <<10>> \o LineBare }

\* the vendor lists a manager may report
VendorLists ==
    { VendorA, VendorA \o <<32>> \o VendorB, VendorA \o <<32>> \o VendorA }
\* the longest of them, in names
MaxVendors == 2

\* the HELLO requests of the sweep, packed once for each vendor field
HelloRequest == [vendor \in {<<>>, VendorA, VendorB} |-> _hello_pack(vendor)]

\* the server versions a daemon may report: below VER_NEW, and VER_NEW
Versions == { <<11, 9>>, <<11, 10>> }

\* the eight fields of one license set of a catalog
CatalogFields(license_text) ==
    << <<102, 105, 100>>, <<115, 105, 103>>, <<110, 109>>, <<100, 49>>, <<100, 50>>,
       <<102, 105, 100>>, <<117, 114, 108>>, license_text >>

MaxUsed == 2
MaxExtra == 1

ServerFrame(type, body) == _header_create(body, type, 0) \o body
HelloFrame(ver, hostname) ==
    ServerFrame(TYPE_HELLO, ver \o <<0, 0>> \o hostname \o <<0>> \o DaemonName \o <<0>>)
RespFrame(text) == ServerFrame(TYPE_RESP, <<0, 0>> \o PackH(Len(text)) \o text \o <<0>>)
StubrFrame(hostname, port) == ServerFrame(TYPE_STUBR, hostname \o <<0>> \o PackL(port))
Stub2Frame(fields) == ServerFrame(TYPE_STUB2, JoinNul(fields))
Reqlic1Frame(used) ==
    ServerFrame(TYPE_REQLIC1, <<0, 0>> \o Decimal(used) \o <<0, 53, 0, 48, 0>>)
Reqlic2Frame == ServerFrame(TYPE_REQLIC2, BodyReqlic2)
\* a one-chunk legacy frame: prefix, a byte, the decimal length, the payload
ChunkFrame(text) ==
    <<PREFIX_CHUNK, 0>> \o Ljust(Decimal(Len(text)), 11) \o Ljust(text, 134)
\* a legacy status frame: prefix, a byte, then used, total and timestamp
TermFrame(used) ==
    Ljust(<<PREFIX_TERM, 0>> \o Decimal(used) \o <<0, 53, 0, 48, 0>>, 147)

BadPrefixFrame == <<0>>
BadCrcFrame == Tamper(RespFrame(PathText), 4)
BadFrames == {BadPrefixFrame, BadCrcFrame}

MgrHelloReplies ==
    {HelloFrame(v, h) : v \in Versions, h \in {HostM, HostN}} \cup BadFrames
MgrPathReplies == {RespFrame(PathText)} \cup BadFrames
MgrFileReplies == {RespFrame(t) : t \in FileTexts} \cup BadFrames
MgrDlistReplies == {RespFrame(t) : t \in VendorLists} \cup BadFrames
\* the manager redirects its i-th vendor HELLO to a port of its own
MgrRedirectReplies ==
    [i \in 1..MaxVendors |->
        {StubrFrame(HostN, 28187 + i), HelloFrame(<<11, 9>>, HostM)} \cup BadFrames]
VendorHelloReplies == {HelloFrame(v, HostN) : v \in Versions} \cup BadFrames
FeatureReplies == {Stub2Frame(<< <<102, 32, 103>> >>)} \cup BadFrames
CatalogReplies ==
    {Stub2Frame(<<>>), Stub2Frame(CatalogFields(LineSigned)),
     Stub2Frame(CatalogFields(LineBroken) \o CatalogFields(LineSigned))} \cup BadFrames
ModernStatusReplies == {Reqlic1Frame(n) : n \in 0..MaxUsed} \cup {BadCrcFrame}
LegacyStatusReplies == {TermFrame(n) : n \in 0..MaxUsed} \cup {BadPrefixFrame}
ExtraFrames == {ChunkFrame(<<117>>)}
UsageReplies == {Reqlic2Frame, BadCrcFrame}

AllFrames ==
    MgrHelloReplies \cup MgrPathReplies \cup MgrFileReplies \cup MgrDlistReplies
    \cup UNION {MgrRedirectReplies[i] : i \in 1..MaxVendors} \cup VendorHelloReplies \cup FeatureReplies
    \cup CatalogReplies \cup ModernStatusReplies \cup LegacyStatusReplies
    \cup ExtraFrames \cup UsageReplies

\* _query's check of the prefix byte, then _request_parse
QueryAndParse(frame) ==
    IF frame[1] \notin PREFIXES THEN ParseError ELSE _request_parse(frame)

ParsedOf == [f \in AllFrames |-> QueryAndParse(f)]

(***************************************************************************)
(* The client objects                                                      *)
(***************************************************************************)

NewParams ==
    [keys |-> {}, server_hostname |-> <<>>, server_daemon |-> <<>>,
     server_version |-> <<0, 0>>, license_file_path |-> <<>>,
     license_file_text |-> <<>>, licenses_in_file |-> <<>>, vendors |-> <<>>]

\* _Client.__init__ / ManagerClient.__init__; oldproto FALSE stands for None
NewManagerClient(server, port, sock) ==
    [server |-> server, port |-> port, oldproto |-> FALSE, vendor |-> <<>>,
     sock |-> sock, params |-> NewParams]

\* _Client.__init__ / VendorClient.__init__
NewVendorClient(server, port, sock) ==
    [server |-> server, port |-> port, oldproto |-> FALSE, vendor |-> <<>>,
     sock |-> sock, features |-> {}, license_sets |-> <<>>, licenses |-> <<>>]

\* _Client.connect: a new socket
NewConn(host, port) == [host |-> host, port |-> port, open |-> TRUE, log |-> <<>>]

\* what sendall and the recv calls of one _query leave in a socket's history
SendEv(kind, arg, n) ==
    [op |-> "send", kind |-> kind, arg |-> arg, li |-> n, role |-> "",
     ok |-> TRUE, type |-> 0, ver |-> <<0, 0>>, used |-> 0, host |-> <<>>, port |-> 0]
RecvEv(role, msg, n, used) ==
    [op |-> "recv", kind |-> "", arg |-> <<>>, li |-> n, role |-> role,
     ok |-> ~msg.err, type |-> msg.type, ver |-> msg.server_version, used |-> used,
     host |-> msg.vendor_hostname, port |-> msg.vendor_port]

Logged(cs, c, evs) == [cs EXCEPT ![c].log = @ \o evs]

CurIdle ==
    [keys |-> {}, used |-> 0, total |-> 0, timestamp |-> 0, usage |-> <<>>, extra |-> 0]

ConvInit ==
    /\ pc = "query_server"
    /\ mgr = NewManagerClient(HostM, 27000, 1)
    /\ conns = <<NewConn(HostM, 27000)>>
    /\ vendors = <<>>
    /\ redirects = <<>>
    /\ todo = {}
    /\ vi = 0
    /\ li = 0
    /\ cur = CurIdle
    /\ err = ""

Raise(where) == pc' = "error" /\ err' = where

\* a faulty query_server that dials the same host again
ReconnectHost_Dialed(dialed, reported) == dialed

\* the host query_server connects to again: self.server = msg["hostname"]
ReconnectHost(dialed, reported) == reported

\* query_server, up to its second hello(): hello, record the server
\* parameters, close, self.server = msg["hostname"], connect
QueryServer ==
    /\ pc = "query_server"
    /\ \E f \in MgrHelloReplies : \E msg \in {ParsedOf[f]} :
        LET logged == Logged(conns, mgr.sock,
                             <<SendEv("HELLO", HelloRequest[mgr.vendor], 0), RecvEv("reply", msg, 0, 0)>>)
            old == mgr.oldproto \/ msg.legacy
            host == ReconnectHost(mgr.server, msg.hostname)
        IN  IF msg.err \/ "hostname" \notin msg.keys
            THEN /\ conns' = logged
                 /\ mgr' = [mgr EXCEPT !.oldproto = old]
                 /\ Raise("query_server")
            ELSE /\ conns' = Append([logged EXCEPT ![mgr.sock].open = FALSE],
                                    NewConn(host, mgr.port))
                 /\ mgr' = [mgr EXCEPT
                        !.oldproto = old, !.server = host, !.sock = Len(conns) + 1,
                        !.params = [@ EXCEPT
                            !.keys = @ \cup {"server_hostname", "server_daemon",
                                             "server_version"},
                            !.server_hostname = msg.hostname,
                            !.server_daemon = msg.daemon,
                            !.server_version = msg.server_version]]
                 /\ pc' = "query_server_hello"
                 /\ UNCHANGED err
    /\ UNCHANGED <<vendors, redirects, todo, vi, li, cur, parseVars>>

\* the host now dialed answers under its own name
SecondHelloReplies ==
    [h \in {HostM, HostN} |-> {HelloFrame(v, h) : v \in Versions} \cup BadFrames]

\* the second hello() of query_server, on the new connection
QueryServerHello ==
    /\ pc = "query_server_hello"
    /\ \E f \in SecondHelloReplies[mgr.server] : \E msg \in {ParsedOf[f]} :
            /\ conns' = Logged(conns, mgr.sock,
                               <<SendEv("HELLO", HelloRequest[mgr.vendor], 0), RecvEv("reply", msg, 0, 0)>>)
            /\ mgr' = [mgr EXCEPT !.oldproto = @ \/ msg.legacy]
            /\ IF msg.err THEN Raise("query_server")
               ELSE pc' = "license_file_path" /\ UNCHANGED err
    /\ UNCHANGED <<vendors, redirects, todo, vi, li, cur, parseVars>>

\* ManagerClient.request(command) with the reply f: the socket history it
\* leaves.  _request_pack reads server_params["server_daemon"] before
\* anything is sent.
CanPack == "server_daemon" \in mgr.params.keys
Requested(command, msg) ==
    Logged(conns, mgr.sock, <<SendEv("REQ", command, 0), RecvEv("reply", msg, 0, 0)>>)
\* msg["text"][0] can be read
HasText(msg) == ~msg.err /\ "text" \in msg.keys /\ Len(msg.text) > 0

\* query_server_license_file_path
QueryLicenseFilePath ==
    /\ pc = "license_file_path"
    /\ IF ~CanPack THEN Raise("request") /\ UNCHANGED <<conns, mgr>>
       ELSE \E f \in MgrPathReplies : \E msg \in {ParsedOf[f]} :
                /\ conns' = Requested(Cmd_getpaths, msg)
                /\ IF ~HasText(msg) THEN Raise("license_file_path") /\ UNCHANGED mgr
                   ELSE /\ mgr' = [mgr EXCEPT !.params = [@ EXCEPT
                                !.keys = @ \cup {"license_file_path"},
                                !.license_file_path = msg.text[1]]]
                        /\ pc' = "license_file_contents"
                        /\ UNCHANGED err
    /\ UNCHANGED <<vendors, redirects, todo, vi, li, cur, parseVars>>

\* query_server_license_file_contents
QueryLicenseFileContents ==
    /\ pc = "license_file_contents"
    /\ IF ~CanPack THEN Raise("request") /\ UNCHANGED <<conns, mgr>>
       ELSE \E f \in MgrFileReplies : \E msg \in {ParsedOf[f]} :
                /\ conns' = Requested(<<>>, msg)
                /\ IF ~HasText(msg) THEN Raise("license_file_contents") /\ UNCHANGED mgr
                   ELSE \E parsed_lic_file \in {flexnet_parse(msg.text[1])} :
                   IF parsed_lic_file.err
                   THEN /\ mgr' = [mgr EXCEPT !.params = [@ EXCEPT
                                !.keys = @ \cup {"license_file_text"},
                                !.license_file_text = msg.text[1]]]
                        /\ Raise("license_file_contents")
                   ELSE /\ mgr' = [mgr EXCEPT !.params = [@ EXCEPT
                                !.keys = @ \cup {"license_file_text", "licenses_in_file"},
                                !.license_file_text = msg.text[1],
                                !.licenses_in_file = parsed_lic_file.licenses]]
                        /\ pc' = "vendor_list"
                        /\ UNCHANGED err
    /\ UNCHANGED <<vendors, redirects, todo, vi, li, cur, parseVars>>

\* query_vendor_list, and the entry of query_vendor_details
QueryVendorList ==
    /\ pc = "vendor_list"
    /\ IF ~CanPack THEN Raise("request") /\ UNCHANGED <<conns, mgr, vi>>
       ELSE \E f \in MgrDlistReplies : \E msg \in {ParsedOf[f]} :
            LET names == SplitWs(msg.text[1])
            IN  /\ conns' = Requested(Cmd_dlist, msg)
                /\ IF ~HasText(msg) THEN Raise("vendor_list") /\ UNCHANGED <<mgr, vi>>
                   ELSE /\ mgr' = [mgr EXCEPT !.params = [@ EXCEPT
                                !.keys = @ \cup {"vendors"}, !.vendors = names]]
                        /\ pc' = IF names = <<>> THEN "done" ELSE "redirect"
                        /\ vi' = 1
                        /\ UNCHANGED err
    /\ UNCHANGED <<vendors, redirects, todo, li, cur, parseVars>>

\* query_vendor_details, one turn of its first loop: hello() with the
\* vendor's name on the manager connection, the redirect recorded
VendorRedirect ==
    /\ pc = "redirect"
    /\ \E f \in MgrRedirectReplies[vi] : \E msg \in {ParsedOf[f]} :
        LET vendor_name == mgr.params.vendors[vi]
            last == vi = Len(mgr.params.vendors)
            recorded == Put(redirects, vendor_name,
                            [hostname |-> msg.vendor_hostname, port |-> msg.vendor_port])
        IN  /\ conns' = Logged(conns, mgr.sock,
                               <<SendEv("HELLO", HelloRequest[vendor_name], 0), RecvEv("reply", msg, 0, 0)>>)
            /\ mgr' = [mgr EXCEPT !.vendor = vendor_name, !.oldproto = @ \/ msg.legacy]
            /\ IF msg.err \/ "vendor_hostname" \notin msg.keys
               THEN Raise("redirect") /\ UNCHANGED <<redirects, todo, vi>>
               ELSE /\ redirects' = recorded
                    /\ vi' = vi + 1
                    /\ todo' = IF last THEN DOMAIN recorded ELSE todo
                    /\ pc' = IF last THEN "connect" ELSE "redirect"
                    /\ UNCHANGED err
    /\ UNCHANGED <<vendors, li, cur, parseVars>>

Pending == [NoMessage EXCEPT !.keys = {"pending"}]

(***************************************************************************)
(* The vendor connections: the second loop of query_vendor_details         *)
(***************************************************************************)

\* re.match('^\s*$', x)
IsBlank(x) == \A i \in 1..Len(x) : x[i] \in Whitespace

\* the dict query_vendor_licenses fills from eight consecutive fields; the
\* key "fid" is written twice, the later field staying
LicenseSetData(fields) ==
    [fid |-> fields[6], sig |-> fields[2], names |-> fields[3], date1 |-> fields[4],
     date2 |-> fields[5], url |-> fields[7], license_text |-> fields[8]]

\* LicenseSet.__init__; err for an exception of flexnet_parse
LicenseSet(license_set_data) ==
    LET parsed_lics == flexnet_parse(license_set_data.license_text)
    IN  [err |-> parsed_lics.err,
         fid |-> license_set_data.fid, sig |-> license_set_data.sig,
         names |-> license_set_data.names, date1 |-> license_set_data.date1,
         date2 |-> license_set_data.date2, url |-> license_set_data.url,
         licenses |-> Licenses(parsed_lics.licenses)]

\* the license sets query_vendor_licenses makes of the reply's text fields
NewLicenseSets(text) ==
    [k \in 1..(Len(text) \div 8) |->
        LicenseSet(LicenseSetData(SubSeq(text, 8 * k - 7, 8 * k)))]

\* the licenses query_vendor_details takes from the manager's file text
LicenseFileEntries(vendor_name) ==
    SelectSeq(mgr.params.licenses_in_file, LAMBDA lic : lic[K_vendor] = vendor_name)

\* client.licenses = [License(data) for data in license_file_entries]
Reconciled(client) ==
    [client EXCEPT !.licenses = Licenses(LicenseFileEntries(client.vendor))]

\* the order of the status queries: the members of each license set, set
\* by set, and then client.licenses; <<0, j>> names client.licenses[j]
RECURSIVE SetRefs(_, _)
SetRefs(sets, s) ==
    IF s > Len(sets) THEN <<>>
    ELSE [j \in 1..Len(sets[s].licenses) |-> <<s, j>>] \o SetRefs(sets, s + 1)

LicRefs(client) ==
    SetRefs(client.license_sets, 1) \o [j \in 1..Len(client.licenses) |-> <<0, j>>]

LicAt(client, ref) ==
    IF ref[1] = 0 THEN client.licenses[ref[2]]
    ELSE client.license_sets[ref[1]].licenses[ref[2]]

\* a faulty end of the status query that never updates lic.status
StatusUpdated_Dropped(client, ref, status) == client

\* lic.status.update(status)
StatusUpdated(client, ref, status) ==
    LET new == [keys |-> status.keys, used |-> status.used, total |-> status.total,
                timestamp |-> status.timestamp, usage |-> status.usage]
    IN  IF ref[1] = 0 THEN [client EXCEPT !.licenses[ref[2]].status = new]
        ELSE [client EXCEPT !.license_sets[ref[1]].licenses[ref[2]].status = new]

\* if not self.oldproto: client.query_vendor_licenses()   (self is the manager)
CatalogWanted == ~mgr.oldproto

\* where the sweep goes once a vendor's licenses are all accounted for
AfterVendor == IF todo = {} THEN "done" ELSE "connect"
StartStatus(client) ==
    /\ pc' = IF LicRefs(client) = <<>> THEN AfterVendor ELSE "status"
    /\ li' = 1

\* a faulty second loop that leaves the new client's vendor as constructed
Named_Unset(client, vendor_name) == client

\* client.vendor = vendor_name
Named(client, vendor_name) == [client EXCEPT !.vendor = vendor_name]

\* the second loop, up to the vendor's hello(): a connection to the
\* recorded host and port, client.vendor = vendor_name, hello()
VendorConnect ==
    /\ pc = "connect"
    /\ \E vendor_name \in todo, f \in VendorHelloReplies : \E msg \in {ParsedOf[f]} :
        LET v == redirects[vendor_name]
            sock == Len(conns) + 1
            named == Named(NewVendorClient(v.hostname, v.port, sock), vendor_name)
            client == [named EXCEPT !.oldproto = msg.legacy]
        IN  /\ conns' = Logged(Append(conns, NewConn(v.hostname, v.port)), sock,
                               <<SendEv("HELLO", HelloRequest[named.vendor], 0), RecvEv("reply", msg, 0, 0)>>)
            /\ vendors' = Append(vendors, client)
            /\ todo' = todo \ {vendor_name}
            /\ IF msg.err THEN Raise("vendor_hello")
               ELSE pc' = "features" /\ UNCHANGED err
    /\ UNCHANGED <<mgr, redirects, vi, li, cur, parseVars>>

\* query_vendor_features, and what follows it when no catalog is asked for
VendorFeatures ==
    /\ pc = "features"
    /\ \E f \in FeatureReplies : \E msg \in {ParsedOf[f]} :
        LET k == Len(vendors)
            client == vendors[k]
            req == IF client.oldproto THEN SendEv("STUB_OLD", StubOldData, 0)
                   ELSE SendEv("STUB", <<49, 0, 48, 0>>, 0)
            featured == [client EXCEPT !.features = @ \cup
                            {SplitWs(msg.text[1])[i] : i \in 1..Len(SplitWs(msg.text[1]))}]
        IN  /\ conns' = Logged(conns, client.sock, <<req, RecvEv("reply", msg, 0, 0)>>)
            /\ IF ~HasText(msg)
               THEN Raise("features") /\ UNCHANGED <<vendors, li>>
               ELSE IF CatalogWanted
               THEN /\ vendors' = [vendors EXCEPT ![k] = featured]
                    /\ pc' = "licenses"
                    /\ UNCHANGED <<li, err>>
               ELSE /\ vendors' = [vendors EXCEPT ![k] = Reconciled(featured)]
                    /\ StartStatus(Reconciled(featured))
                    /\ UNCHANGED err
    /\ UNCHANGED <<mgr, redirects, todo, vi, cur, parseVars>>

\* query_vendor_licenses, and the reconciliation that follows it
VendorLicenses ==
    /\ pc = "licenses"
    /\ \E f \in CatalogReplies : \E msg \in {ParsedOf[f]} :
        LET k == Len(vendors)
            client == vendors[k]
            text == SelectSeq(msg.text, LAMBDA x : ~IsBlank(x))
        IN  /\ conns' = Logged(conns, client.sock,
                               <<SendEv("LICSET", LicsetData, 0), RecvEv("reply", msg, 0, 0)>>)
            /\ IF msg.err \/ "text" \notin msg.keys \/ Len(text) % 8 # 0
               THEN Raise("licenses") /\ UNCHANGED <<vendors, li>>
               ELSE \E sets \in {NewLicenseSets(text)} :
                    IF \E i \in 1..Len(sets) : sets[i].err
                    THEN Raise("license_set") /\ UNCHANGED <<vendors, li>>
                    ELSE \E extended \in
                            {Reconciled([client EXCEPT !.license_sets = @ \o sets])} :
                         /\ vendors' = [vendors EXCEPT ![k] = extended]
                         /\ StartStatus(extended)
                         /\ UNCHANGED err
    /\ UNCHANGED <<mgr, redirects, todo, vi, cur, parseVars>>

\* sign = lic.sign; if not sign: sign = lic.others[0]
StatusIdentifier(lic) ==
    IF lic.sign # None /\ lic.sign # <<>> THEN [err |-> FALSE, sign |-> lic.sign]
    ELSE IF lic.others = NoneList THEN [err |-> TRUE, sign |-> <<>>]
    ELSE [err |-> FALSE, sign |-> lic.others[1]]

\* a faulty range(): one usage frame fewer than the reply reports
RangeUsed_OneShort(status) == IF status.used > 1 THEN status.used - 1 ELSE 0

\* a faulty range(): one usage frame more than the reply reports
RangeUsed_OneMore(status) == IF status.used > 0 THEN status.used + 1 ELSE 1

\* for i in range(status["used"]): the number of usage frames to read
RangeUsed(status) == IF status.used > 0 THEN status.used ELSE 0

\* the end of query_vendor_license_status: lic.status.update(status), and on
\* to the next license, the next vendor or the end of the sweep
FinishStatus(k, status) ==
    LET client == vendors[k]
        refs == LicRefs(client)
    IN  /\ vendors' = [vendors EXCEPT ![k] = StatusUpdated(client, refs[li], status)]
        /\ cur' = [CurIdle EXCEPT !.extra = cur.extra]
        /\ li' = li + 1
        /\ pc' = IF li = Len(refs) THEN AfterVendor ELSE "status"

\* what follows a status reply: the usage loop, or the end of the query
AfterStatus(k, status) ==
    IF RangeUsed(status) = 0 THEN FinishStatus(k, status)
    ELSE pc' = "usage" /\ cur' = status /\ UNCHANGED <<vendors, li>>

\* _query_license_status: the REQLIC request and its REQLIC1 reply
ModernStatus(k, sign, msg) ==
    LET client == vendors[k]
        lic == LicAt(client, LicRefs(client)[li])
        req == lic.feature \o <<0>> \o Slice(sign, 0, 20) \o <<0, 0, 0, 0, 1>>
        status == [cur EXCEPT !.keys = {"prefix", "used", "total", "timestamp", "usage"},
                              !.used = msg.used, !.total = msg.total,
                              !.timestamp = msg.timestamp]
    IN  /\ conns' = Logged(conns, client.sock,
                           <<SendEv("REQLIC", req, li), RecvEv("status", msg, li, msg.used)>>)
        /\ IF msg.err \/ "used" \notin msg.keys
           THEN Raise("status") /\ UNCHANGED <<vendors, li, cur>>
           ELSE AfterStatus(k, status) /\ UNCHANGED err

\* the request of _query_license_status_old, before its check byte
LegacyRequest(lic, sign) == Ljust(lic.feature, 31) \o Ljust(sign, 21) \o <<49>>

\* _query_license_status_old from one _query(req) on: the request is sent,
\* a frame is read; a frame that does not start with 0x4e sends the loop
\* round again, a 0x4e frame is parsed into the status
LegacyStatus(k, sign, f, msg) ==
    LET client == vendors[k]
        lic == LicAt(client, LicRefs(client)[li])
        text == msg.text
        good == ~msg.err /\ Len(text) >= 3 /\ \A i \in 1..3 : IsInt(text[i])
        used == IF good THEN IntOf(text[1]) ELSE 0
        status == [cur EXCEPT !.keys = {"used", "total", "timestamp", "usage"},
                                  !.used = used, !.total = IntOf(text[2]),
                                  !.timestamp = IntOf(text[3])]
        send == SendEv("REQLIC_OLD", LegacyRequest(lic, sign), li)
    IN  IF f[1] \notin PREFIXES
        THEN /\ conns' = Logged(conns, client.sock, <<send, RecvEv("status", msg, li, 0)>>)
             /\ Raise("status") /\ UNCHANGED <<vendors, li, cur>>
        ELSE IF f[1] # PREFIX_TERM
        THEN /\ conns' = Logged(conns, client.sock, <<send, RecvEv("extra", msg, li, 0)>>)
             /\ pc' = "status_old"
             /\ cur' = [cur EXCEPT !.extra = @ + 1]
             /\ UNCHANGED <<vendors, li, err>>
        ELSE /\ conns' = Logged(conns, client.sock, <<send, RecvEv("status", msg, li, used)>>)
             /\ IF ~good THEN Raise("status") /\ UNCHANGED <<vendors, li, cur>>
                ELSE AfterStatus(k, status) /\ UNCHANGED err

\* the frames a legacy vendor may answer a status request with: the vendors
\* send at most MaxExtra frames ahead of a 0x4e frame in one sweep
LegacyReplies == IF cur.extra < MaxExtra THEN LegacyStatusReplies \cup ExtraFrames
                 ELSE LegacyStatusReplies

\* query_vendor_license_status up to the first reply to its status request
LicenseStatus ==
    /\ pc = "status"
    /\ LET k == Len(vendors)
           client == vendors[k]
           id == StatusIdentifier(LicAt(client, LicRefs(client)[li]))
       IN  IF id.err
           THEN Raise("status") /\ UNCHANGED <<conns, vendors, li, cur>>
           ELSE IF client.oldproto
           THEN \E f \in LegacyReplies : LegacyStatus(k, id.sign, f, ParsedOf[f])
           ELSE \E f \in ModernStatusReplies : ModernStatus(k, id.sign, ParsedOf[f])
    /\ UNCHANGED <<mgr, redirects, todo, vi, parseVars>>

\* one more turn of the loop of _query_license_status_old:
\*   while ord(response[0]) != 0x4e: response = self._query(req)
LicenseStatusOldAgain ==
    /\ pc = "status_old"
    /\ LET k == Len(vendors)
           client == vendors[k]
           id == StatusIdentifier(LicAt(client, LicRefs(client)[li]))
       IN  \E f \in LegacyReplies : LegacyStatus(k, id.sign, f, ParsedOf[f])
    /\ UNCHANGED <<mgr, redirects, todo, vi, parseVars>>

\* del msg["header"] in _query_license_usage
WithoutHeader(msg) == [msg EXCEPT !.prefix = 0, !.type = 0, !.len = 0,
                                  !.server_version = <<0, 0>>]

\* one turn of the usage loop: _query_license_usage reads a frame with no
\* request sent, and the message is appended to status["usage"]
LicenseUsage ==
    /\ pc = "usage"
    /\ \E f \in UsageReplies : \E msg \in {ParsedOf[f]} :
        LET k == Len(vendors)
            client == vendors[k]
            status == [cur EXCEPT !.usage = Append(@, WithoutHeader(msg))]
        IN  /\ conns' = Logged(conns, client.sock, <<RecvEv("usage", msg, li, 0)>>)
            /\ IF msg.err THEN Raise("usage") /\ UNCHANGED <<vendors, li, cur>>
               ELSE IF Len(status.usage) = RangeUsed(status)
               THEN FinishStatus(k, status) /\ UNCHANGED err
               ELSE cur' = status /\ UNCHANGED <<vendors, li, pc, err>>
    /\ UNCHANGED <<mgr, redirects, todo, vi, parseVars>>

ConvNext ==
    \/ QueryServer
    \/ QueryServerHello
    \/ QueryLicenseFilePath
    \/ QueryLicenseFileContents
    \/ QueryVendorList
    \/ VendorRedirect
    \/ VendorConnect
    \/ VendorFeatures
    \/ VendorLicenses
    \/ LicenseStatus
    \/ LicenseStatusOldAgain
    \/ LicenseUsage

ParseIdle == response = <<>> /\ parsed = Pending

(***************************************************************************)
(* _Client._query, one recv at a time                                      *)
(***************************************************************************)

\* how many bytes a short recv may deliver, and how many empty recvs of a
\* closed socket are followed
MaxSplit == 2
MaxEmpty == 2
\* how many bytes the peer has ready after the header of a modern frame
MaxTail == 12

\* the sizes recv(n) may return with avail bytes ready: all it can, or a few
RecvSizes(n, avail) ==
    LET most == IF n < avail THEN n ELSE avail
    IN  {most} \cup {k \in 1..MaxSplit : k <= most}

\* socket.recv(n) on the socket of q: bytes if some are ready; with none
\* ready, '' from a peer that has closed and socket.timeout from one that
\* keeps the connection open (settimeout(10))
Recv(n) ==
    IF q.stream # <<>>
    THEN {[data |-> SubSeq(q.stream, 1, k), timeout |-> FALSE,
           short |-> k < n /\ k < Len(q.stream)] :
            k \in RecvSizes(n, Len(q.stream))}
    ELSE {[data |-> <<>>, timeout |-> ~q.closing, short |-> FALSE]}

\* the socket after that recv
Received(r) ==
    [q EXCEPT !.stream = SubSeq(@, Len(r.data) + 1, Len(@)),
              !.consumed = @ + Len(r.data),
              !.short = @ \/ r.short,
              !.empties = IF r.data = <<>> /\ ~r.timeout THEN @ + 1 ELSE @]

\* an exception leaves _query
QueryRaised(t, what) == [t EXCEPT !.pc = "raised", !.err = what]

\* data[2:13].split('\x00')[0]
LengthField(data) == Split(Slice(data, 2, 13), 0)[1]
\* _Client._length_remaining
_length_remaining(data) == IntOf(LengthField(data))

\* a faulty loop test that goes on at a declared length of 134
AfterChunk_AtLeast(t, chunk) ==
    IF ~IsInt(LengthField(chunk)) THEN QueryRaised(t, "length")
    ELSE IF _length_remaining(chunk) >= 147 - 13
    THEN [t EXCEPT !.pc = "chunk_more", !.newbytes = <<>>, !.left = _length_remaining(chunk)]
    ELSE [t EXCEPT !.pc = "returned", !.newbytes = <<>>, !.left = _length_remaining(chunk)]

\* the state of a _query call that received data into response (or into
\* newbytes) and computed length_remaining from the chunk
AfterChunk(t, chunk) ==
    IF ~IsInt(LengthField(chunk)) THEN QueryRaised(t, "length")
    ELSE IF _length_remaining(chunk) > 147 - 13
    THEN [t EXCEPT !.pc = "chunk_more", !.newbytes = <<>>, !.left = _length_remaining(chunk)]
    ELSE [t EXCEPT !.pc = "returned", !.newbytes = <<>>, !.left = _length_remaining(chunk)]

\* torecv = len_total - len(response)
Torecv(len_total, resp) == len_total - Len(resp)

\* if request: sendall(request); response = recv(1); the prefix test
QueryStart ==
    /\ q.pc = "start"
    /\ \E r \in Recv(1) :
        LET t == [Received(r) EXCEPT !.sent = q.request, !.response = r.data]
        IN  q' = IF r.timeout THEN QueryRaised(t, "timeout")
                 ELSE IF r.data = <<>> THEN QueryRaised(t, "index")
                 ELSE IF r.data[1] \notin PREFIXES THEN QueryRaised(t, "prefix")
                 ELSE IF r.data[1] = PREFIX_CHUNK THEN [t EXCEPT !.pc = "chunk"]
                 ELSE IF r.data[1] = PREFIX_TERM THEN [t EXCEPT !.pc = "term"]
                 ELSE [t EXCEPT !.pc = "header"]
    /\ UNCHANGED <<response, parsed, fl, cat, convVars>>

\* prefix 0x4c: response += recv(147-1), then length_remaining
QueryChunk ==
    /\ q.pc = "chunk"
    /\ \E r \in Recv(147 - 1) :
        LET t == [Received(r) EXCEPT !.response = @ \o r.data]
        IN  q' = IF r.timeout THEN QueryRaised(t, "timeout")
                 ELSE AfterChunk(t, t.response)
    /\ UNCHANGED <<response, parsed, fl, cat, convVars>>

\* the loop on length_remaining: newbytes = recv(147), filled up to 147
\* bytes by the inner loop, appended, and length_remaining read from it
QueryChunkMore ==
    /\ q.pc = "chunk_more"
    /\ q.empties < MaxEmpty
    /\ \E r \in Recv(147 - Len(q.newbytes)) :
        LET t == [Received(r) EXCEPT !.newbytes = @ \o r.data]
        IN  q' = IF r.timeout THEN QueryRaised(t, "timeout")
                 ELSE IF Len(t.newbytes) < 147 THEN t
                 ELSE AfterChunk([t EXCEPT !.response = @ \o t.newbytes], t.newbytes)
    /\ UNCHANGED <<response, parsed, fl, cat, convVars>>

\* a faulty 0x4e branch that reads the one byte behind the prefix
RecvTerm_OneByte == Recv(1)

\* recv(147-1) of the 0x4e branch
RecvTerm == Recv(147 - 1)

\* prefix 0x4e: response += recv(147-1)
QueryTerm ==
    /\ q.pc = "term"
    /\ \E r \in RecvTerm :
        LET t == [Received(r) EXCEPT !.response = @ \o r.data]
        IN  q' = IF r.timeout THEN QueryRaised(t, "timeout")
                 ELSE [t EXCEPT !.pc = "returned"]
    /\ UNCHANGED <<response, parsed, fl, cat, convVars>>

\* prefix 0x2f: while len(response) < 20: response += recv(20-len(response));
\* then len_total and torecv
QueryHeader ==
    /\ q.pc = "header"
    /\ q.empties < MaxEmpty
    /\ \E r \in Recv(20 - Len(q.response)) :
        LET t == [Received(r) EXCEPT !.response = @ \o r.data]
            torecv == Torecv(UnpackH(Slice(t.response, 4, 6)), t.response)
        IN  q' = IF r.timeout THEN QueryRaised(t, "timeout")
                 ELSE IF Len(t.response) < 20 THEN t
                 ELSE IF torecv > 0 THEN [t EXCEPT !.pc = "body", !.left = torecv]
                 ELSE [t EXCEPT !.pc = "returned", !.left = torecv]
    /\ UNCHANGED <<response, parsed, fl, cat, convVars>>

\* while torecv>0: response += recv(min(4096, torecv))
QueryBody ==
    /\ q.pc = "body"
    /\ q.empties < MaxEmpty
    /\ \E r \in Recv(IF q.left < 4096 THEN q.left ELSE 4096) :
        LET t == [Received(r) EXCEPT !.response = @ \o r.data]
            torecv == Torecv(UnpackH(Slice(t.response, 4, 6)), t.response)
        IN  q' = IF r.timeout THEN QueryRaised(t, "timeout")
                 ELSE IF torecv > 0 THEN [t EXCEPT !.left = torecv]
                 ELSE [t EXCEPT !.pc = "returned", !.left = torecv]
    /\ UNCHANGED <<response, parsed, fl, cat, convVars>>

QueryNext ==
    \/ QueryStart
    \/ QueryChunk
    \/ QueryChunkMore
    \/ QueryTerm
    \/ QueryHeader
    \/ QueryBody

\* what the peer has on the wire: a modern frame that declares len_total and
\* the bytes behind its header
ModernWire(len_total) ==
    <<PREFIX_MODERN, 1, 2, 3>> \o PackH(len_total) \o [i \in 1..14 |-> 0]
    \o [i \in 1..MaxTail |-> 100 + i]
\* a legacy chunk that declares what is left
Chunk(left, fill) ==
    <<PREFIX_CHUNK, 0>> \o Ljust(Decimal(left), 11) \o [i \in 1..134 |-> fill]
\* two chunks and the frame behind them
LegacyWire == Chunk(200, 97) \o Chunk(66, 98) \o TermFrame(1)
\* a chunk that declares exactly 134, and one that declares 135, each with a
\* chunk behind it
ExactWire == Chunk(134, 99) \o Chunk(66, 98)
OverWire == Chunk(135, 100) \o Chunk(1, 98)
TermWire == TermFrame(1) \o <<PREFIX_MODERN>>
QueryLengths == {0, 19, 20, 26, 65535}
QueryWires ==
    {ModernWire(len_total) : len_total \in QueryLengths}
    \cup {LegacyWire, ExactWire, OverWire, TermWire, BadPrefixFrame}
\* where the peer stops sending
QueryCuts == {0, 1, 12, 20, 23, 26, 20 + MaxTail, 147, 148, 160, 294, 300}

QueryIdle ==
    [pc |-> "idle", stream |-> <<>>, closing |-> FALSE, request |-> <<>>, sent |-> <<>>,
     response |-> <<>>, newbytes |-> <<>>, left |-> 0, consumed |-> 0, empties |-> 0,
     err |-> "", wire |-> <<>>, short |-> FALSE]

\* no call of query_vendor_licenses under way
CatalogIdle ==
    [pc |-> "idle", fields |-> <<>>, frame |-> <<>>, before |-> <<>>,
     license_sets |-> <<>>]

QueryInit ==
    /\ \E wire \in QueryWires, cut \in QueryCuts, closing \in BOOLEAN,
          request \in {<<>>, Cmd_dlist} :
        /\ cut <= Len(wire)
        /\ q = [QueryIdle EXCEPT !.pc = "start", !.stream = SubSeq(wire, 1, cut),
                                 !.wire = SubSeq(wire, 1, cut),
                                 !.closing = closing, !.request = request]
    /\ fl = [text |-> <<>>, items |-> <<>>, called |-> FALSE, result |-> NoEntries]
    /\ cat = CatalogIdle
    /\ ParseIdle
    /\ ConvInit

SpecQuery == QueryInit /\ [][QueryNext]_vars

(***************************************************************************)
(* flexnet_parse on one INCREMENT or FEATURE line                          *)
(***************************************************************************)

\* how many tokens or pairs follow the quantity
MaxItems == 3

\* what may follow the quantity: KEY=VALUE pairs, one of them with a quoted
\* value that holds a blank, and a token that belongs to no pair (key empty)
PairSign == [key |-> <<83, 73, 71, 78>>, value |-> <<83>>, quoted |-> FALSE]
PairNotice == [key |-> <<78, 79, 84, 73, 67, 69>>, value |-> <<110, 32, 65>>, quoted |-> TRUE]
PairCk == [key |-> <<99, 107>>, value |-> <<55>>, quoted |-> FALSE]
LooseToken == [key |-> <<>>, value |-> <<84>>, quoted |-> FALSE]
FileItems == {PairSign, PairNotice, PairCk, LooseToken}

\* the text of an item as a license file has it
Rendered(item) ==
    IF item.key = <<>> THEN item.value
    ELSE item.key \o T_EQ \o (IF item.quoted THEN <<34>> \o item.value \o <<34>>
                              ELSE item.value)

RECURSIVE RenderedAll(_)
RenderedAll(items) ==
    IF items = <<>> THEN <<>>
    ELSE <<32>> \o Rendered(Head(items)) \o RenderedAll(Tail(items))

\* "<head> f a 1 d 5" and the items
LineText(head, items) ==
    head \o <<32, 102, 32, 97, 32, 49, 32, 100, 32, 53>> \o RenderedAll(items)

\* no call of flexnet_parse yet
FileIdle == [text |-> <<>>, items |-> <<>>, called |-> FALSE, result |-> NoEntries]

FileInit ==
    /\ \E head \in {T_INCREMENT, T_FEATURE}, n \in 0..MaxItems :
        \E items \in [1..n -> FileItems] :
            /\ \A i, j \in 1..n : items[i] = items[j] => i = j
            /\ fl = [FileIdle EXCEPT !.text = LineText(head, items), !.items = items]
    /\ q = QueryIdle
    /\ cat = CatalogIdle
    /\ ParseIdle
    /\ ConvInit

\* one call of flexnet_parse on the text
FlexnetParse ==
    /\ ~fl.called
    /\ fl' = [fl EXCEPT !.called = TRUE, !.result = flexnet_parse(fl.text)]
    /\ UNCHANGED <<response, parsed, q, cat, convVars>>

FileNext == FlexnetParse

SpecFile == FileInit /\ [][FileNext]_vars

(***************************************************************************)
(* VendorClient.query_vendor_licenses on one STUB2 reply, for a client     *)
(* that may hold license sets of an earlier call                           *)
(***************************************************************************)

MaxFields == 17

\* the j-th field of a catalog: a letter of its own, and the license text
\* in every eighth place
CatalogField(j, license_text) == IF j % 8 = 0 THEN license_text ELSE <<64 + j>>

\* n fields, with a field of one space put in after the b-th when b > 0
CatalogWithBlank(n, b, license_text) ==
    [j \in 1..(IF b > 0 THEN n + 1 ELSE n) |->
        IF b > 0 /\ j = b + 1 THEN <<32>>
        ELSE CatalogField(IF b > 0 /\ j > b THEN j - 1 ELSE j, license_text)]

\* the license sets a client may hold before the call
EarlierSets == {<<>>, NewLicenseSets(CatalogFields(LineBare))}

CatalogInit ==
    /\ \E n \in 0..MaxFields, b \in 0..MaxFields, before \in EarlierSets,
          license_text \in {LineSigned, LineBare, LineBroken} :
        /\ b \in {0, 1, n} /\ b <= n
        /\ \E fields \in {CatalogWithBlank(n, b, license_text)} :
            cat = [pc |-> "start", fields |-> fields, frame |-> Stub2Frame(fields),
                   before |-> before, license_sets |-> before]
    /\ q = QueryIdle
    /\ fl = FileIdle
    /\ ParseIdle
    /\ ConvInit

\* query_vendor_licenses: the reply is parsed, its blank fields are dropped,
\* the license sets are built and self.license_sets is extended
QueryVendorLicenses ==
    /\ cat.pc = "start"
    /\ \E msg \in {_request_parse(cat.frame)} :
        LET text == SelectSeq(msg.text, LAMBDA x : ~IsBlank(x))
        IN  IF msg.err \/ "text" \notin msg.keys \/ Len(text) % 8 # 0
            THEN cat' = [cat EXCEPT !.pc = "raised"]
            ELSE \E sets \in {NewLicenseSets(text)} :
                 IF \E i \in 1..Len(sets) : sets[i].err
                 THEN cat' = [cat EXCEPT !.pc = "raised"]
                 ELSE cat' = [cat EXCEPT !.pc = "returned", !.license_sets = @ \o sets]
    /\ UNCHANGED <<response, parsed, q, fl, convVars>>

CatalogNext == QueryVendorLicenses

SpecCatalog == CatalogInit /\ [][CatalogNext]_vars

UnitsIdle == q = QueryIdle /\ fl = FileIdle /\ cat = CatalogIdle

Init == ConvInit /\ ParseIdle /\ UnitsIdle
Next == ConvNext
Spec == Init /\ [][Next]_vars


(***************************************************************************)
(* A caller of the ManagerClient methods: query_server, and request()      *)
(* before it, after it, or after it has raised                             *)
(***************************************************************************)

MaxRequests == 2

\* the REQ commands sent on the manager's present connection
RequestsSent ==
    Len(SelectSeq(conns[mgr.sock].log, LAMBDA ev : ev.op = "send" /\ ev.kind = "REQ"))

\* ManagerClient.request(command), called while no other method runs
Request ==
    /\ pc \in {"query_server", "license_file_path", "error"}
    /\ RequestsSent < MaxRequests
    /\ \E command \in {Cmd_getpaths, <<>>, Cmd_dlist} :
        IF ~CanPack THEN err' = "request" /\ UNCHANGED conns
        ELSE \E f \in MgrPathReplies : \E msg \in {ParsedOf[f]} :
                /\ conns' = Requested(command, msg)
                /\ err' = IF msg.err THEN "request" ELSE err
    /\ UNCHANGED <<pc, mgr, vendors, redirects, todo, vi, li, cur, parseVars>>

ManagerNext ==
    \/ QueryServer
    \/ QueryServerHello
    \/ Request

SpecManager == Init /\ [][ManagerNext]_vars

ParseInit ==
    /\ response \in ParseInputs
    /\ parsed = Pending
    /\ ConvInit
    /\ UnitsIdle

\* one call of _request_parse on the buffer
RequestParse ==
    /\ parsed = Pending
    /\ parsed' = _request_parse(response)
    /\ UNCHANGED <<response, q, fl, cat>>
    /\ UNCHANGED convVars

ParseNext == RequestParse

SpecParse == ParseInit /\ [][ParseNext]_vars

\* C1: a response whose first byte is 0x2F yields a message only if its
\* bytes 1..3 (check byte, CRC high, CRC low) equal _checkbytes of its bytes
\* 4..end; with any mismatch _request_parse raises and returns no message.
C1_AcceptedOnlyIfCheckMatches ==
    (parsed # Pending /\ response[1] = PREFIX_MODERN /\ ~parsed.err)
        => Slice(response, 1, 4) = _checkbytes(SliceFrom(response, 4))

\* a frame with matching check bytes was parsed into a message
C1_Witness ==
    /\ parsed # Pending /\ ~parsed.err
    /\ response[1] = PREFIX_MODERN
    /\ parsed.type = TYPE_RESP

\* a frame whose CRC low byte alone was altered was refused
C1_WitnessRefused ==
    /\ parsed # Pending /\ parsed.err
    /\ response[1] = PREFIX_MODERN
    /\ Slice(response, 1, 3) = Slice(_checkbytes(SliceFrom(response, 4)), 0, 2)
    /\ response[4] # _checkbytes(SliceFrom(response, 4))[3]

(***************************************************************************)
(* Properties of the sweep, read off the socket histories                  *)
(***************************************************************************)

\* the history of the connection of the k-th vendor client
VendorLog(k) == conns[vendors[k].sock].log

\* the licenses of a vendor client, in the order of their status queries
Inventory(client) == [r \in 1..Len(LicRefs(client)) |-> LicAt(client, LicRefs(client)[r])]

IsSend(ev, kind) == ev.op = "send" /\ ev.kind = kind
IsUsageRead(ev) == ev.op = "recv" /\ ev.role = "usage"
\* a status reply that was parsed and reports a count
IsStatusReply(ev) == ev.op = "recv" /\ ev.role = "status" /\ ev.ok

\* C2: on a vendor connection, after a license-status reply that reports
\* used = N, the next N events are reads of usage frames and nothing is sent
\* among them; a request is sent next only once all N frames have been read,
\* and no further frame is read before it.
C2_UsageDrainedBeforeNextRequest ==
    \A k \in 1..Len(vendors) :
        \A i \in 1..Len(VendorLog(k)) :
            IsStatusReply(VendorLog(k)[i]) =>
                LET n == VendorLog(k)[i].used
                IN  /\ \A j \in (i + 1)..Len(VendorLog(k)) :
                            j <= i + n => IsUsageRead(VendorLog(k)[j])
                    /\ Len(VendorLog(k)) > i + n => VendorLog(k)[i + n + 1].op = "send"

\* a status reply reported two usage frames, both were read, and the next
\* request has been sent
C2_Witness ==
    \E k \in 1..Len(vendors) :
        \E i \in 1..Len(VendorLog(k)) :
            /\ IsStatusReply(VendorLog(k)[i])
            /\ VendorLog(k)[i].used = 2
            /\ Len(VendorLog(k)) >= i + 3
            /\ IsUsageRead(VendorLog(k)[i + 1]) /\ VendorLog(k)[i + 1].ok
            /\ IsUsageRead(VendorLog(k)[i + 2]) /\ VendorLog(k)[i + 2].ok
            /\ VendorLog(k)[i + 3].op = "send"

\* C3: once query_vendor_license_status has returned for a license (its
\* status is filled in), len(status["usage"]) = status["used"], for the
\* vendors of either dialect.
C3_UsageLengthIsUsed ==
    \A k \in 1..Len(vendors) :
        \A r \in 1..Len(Inventory(vendors[k])) :
            Inventory(vendors[k])[r].status.keys # {} =>
                Len(Inventory(vendors[k])[r].status.usage)
                    = Inventory(vendors[k])[r].status.used

\* a MODERN and a LEGACY vendor each hold a license whose status query
\* returned with usage frames
C3_Witness ==
    \E k1, k2 \in 1..Len(vendors) :
        /\ ~vendors[k1].oldproto /\ vendors[k2].oldproto
        /\ \E r \in 1..Len(Inventory(vendors[k1])) :
            /\ Inventory(vendors[k1])[r].status.used = 2
            /\ Len(Inventory(vendors[k1])[r].status.usage) = 2
        /\ \E r \in 1..Len(Inventory(vendors[k2])) :
            /\ Inventory(vendors[k2])[r].status.used >= 1
            /\ Len(Inventory(vendors[k2])[r].status.usage) >= 1

\* the requests a LEGACY status query of the n-th license has sent on the
\* connection of the k-th vendor
LegacyStatusRequests(k, n) ==
    {i \in 1..Len(VendorLog(k)) :
        IsSend(VendorLog(k)[i], "REQLIC_OLD") /\ VendorLog(k)[i].li = n}

\* C4: in the LEGACY dialect the status query of one license sends one
\* request only: the frames read ahead of the 0x4e frame, and the usage
\* frames after it, are read without any further request.
C4_LegacyStatusSendsOneRequest ==
    \A k \in 1..Len(vendors) :
        \A n \in 1..Len(Inventory(vendors[k])) :
            Cardinality(LegacyStatusRequests(k, n)) <= 1

\* a status or usage read of the current license has failed
StatusQueryFailed ==
    /\ vendors # <<>>
    /\ \E i \in 1..Len(VendorLog(Len(vendors))) :
        /\ VendorLog(Len(vendors))[i].op = "recv"
        /\ VendorLog(Len(vendors))[i].role \in {"status", "usage"}
        /\ ~VendorLog(Len(vendors))[i].ok

\* licenses, of this vendor or of a vendor yet to be connected, whose
\* status query has not been started
LicensesRemain ==
    /\ vendors # <<>>
    /\ \/ li < Len(Inventory(vendors[Len(vendors)]))
       \/ todo # {}

\* C5: when the status query of a license fails while licenses remain, the
\* sweep is not aborted: it goes on to the remaining licenses.
C5_StatusFailureDoesNotAbort ==
    (StatusQueryFailed /\ LicensesRemain) => pc # "error"

\* the license whose status query is under way
CurrentLicense == Inventory(vendors[Len(vendors)])[li]
NoSign(lic) == lic.sign = None \/ lic.sign = <<>>
NoOthers(lic) == lic.others = NoneList \/ lic.others = <<>>

\* the status request of a license under the identifier id, in the dialect
\* of the client
StatusRequestOf(client, lic, id) ==
    IF client.oldproto THEN LegacyRequest(lic, id)
    ELSE lic.feature \o <<0>> \o Slice(id, 0, 20) \o <<0, 0, 0, 0, 1>>

\* C6: the status request of a license with no sign carries others[0] as
\* the identifier; the status query of a license with neither sign nor
\* others token raises no error: the license is passed over and the sweep
\* goes on.
C6_NoIdentifierIsSkipped ==
    /\ \A k \in 1..Len(vendors) :
        \A i \in 1..Len(VendorLog(k)) :
            (/\ VendorLog(k)[i].op = "send"
             /\ VendorLog(k)[i].kind \in {"REQLIC", "REQLIC_OLD"}
             /\ NoSign(Inventory(vendors[k])[VendorLog(k)[i].li]))
                => VendorLog(k)[i].arg =
                    StatusRequestOf(vendors[k], Inventory(vendors[k])[VendorLog(k)[i].li],
                                    Inventory(vendors[k])[VendorLog(k)[i].li].others[1])
    /\ (pc = "error" /\ err = "status" /\ vendors # <<>>
            /\ li \in 1..Len(Inventory(vendors[Len(vendors)])))
            => ~(NoSign(CurrentLicense) /\ NoOthers(CurrentLicense))

\* the first half of C6 alone: a request for a license with no sign names
\* others[0]
C6_OthersFallback ==
    \A k \in 1..Len(vendors) :
        \A i \in 1..Len(VendorLog(k)) :
            (/\ VendorLog(k)[i].op = "send"
             /\ VendorLog(k)[i].kind \in {"REQLIC", "REQLIC_OLD"}
             /\ NoSign(Inventory(vendors[k])[VendorLog(k)[i].li]))
                => VendorLog(k)[i].arg =
                    StatusRequestOf(vendors[k], Inventory(vendors[k])[VendorLog(k)[i].li],
                                    Inventory(vendors[k])[VendorLog(k)[i].li].others[1])

\* C7: the reconciled inventory of a vendor (the members of its license
\* sets and the licenses of the manager's file text with its name) holds no
\* two licenses with the same (feature, sign) pair.
C7_NoDuplicateFeatureSign ==
    \A k \in 1..Len(vendors) :
        \A r1, r2 \in 1..Len(Inventory(vendors[k])) :
            (/\ Inventory(vendors[k])[r1].feature = Inventory(vendors[k])[r2].feature
             /\ Inventory(vendors[k])[r1].sign = Inventory(vendors[k])[r2].sign)
                => r1 = r2

\* query_server has read its first HELLO reply
FirstHelloDone == "server_hostname" \in mgr.params.keys
\* the HELLO requests sent on the connection
HellosSent(c) == {i \in 1..Len(conns[c].log) : IsSend(conns[c].log[i], "HELLO")}

\* C8 as stated: when the hostname of the HELLO reply equals the dialed
\* host, query_server keeps the original connection and sends one HELLO only.
C8_KeptWhenHostnameEqual ==
    (pc = "license_file_path" /\ mgr.params.server_hostname = conns[1].host)
        => /\ mgr.sock = 1
           /\ conns[1].open
           /\ Cardinality(HellosSent(1)) = 1

\* C8 as the code has it: once the first HELLO reply is in, query_server has
\* closed the dialed connection and opened a second one to the reported
\* hostname, equal to the dialed host or not, and its second HELLO goes out
\* on that connection.
C8_AlwaysReconnects ==
    FirstHelloDone =>
        /\ Len(conns) >= 2
        /\ ~conns[1].open
        /\ mgr.sock = 2
        /\ conns[2].open
        /\ conns[2].host = mgr.params.server_hostname
        /\ Cardinality(HellosSent(1)) = 1
        /\ pc # "query_server_hello" => HellosSent(2) # {}

\* the reply named the dialed host, and query_server has reconnected and
\* said HELLO again all the same
C8_Witness ==
    /\ pc = "license_file_path"
    /\ mgr.params.server_hostname = conns[1].host
    /\ mgr.sock = 2
    /\ HellosSent(2) # {}

\* the HELLO replies read on a connection, and the first of them
HelloReplies(c) ==
    {i \in 1..Len(conns[c].log) :
        /\ conns[c].log[i].op = "recv" /\ conns[c].log[i].ok
        /\ conns[c].log[i].type = TYPE_HELLO}
FirstHelloReply(c) ==
    conns[c].log[CHOOSE i \in HelloReplies(c) : \A j \in HelloReplies(c) : i <= j]

\* C9: the dialect a client uses on its connection is the one of the first
\* HELLO reply read on that connection, LEGACY iff its version is below
\* (11,10): the manager's after a reconnect, and each vendor's.
C9_DialectOfFirstHello ==
    /\ HelloReplies(mgr.sock) # {}
        => mgr.oldproto = VersionIsOld(FirstHelloReply(mgr.sock).ver)
    /\ \A k \in 1..Len(vendors) :
        HelloReplies(vendors[k].sock) # {}
            => vendors[k].oldproto = VersionIsOld(FirstHelloReply(vendors[k].sock).ver)

\* C10: a LICSET request is sent on a vendor connection only if the HELLO
\* reply read on that connection reported a version of (11,10) or above.
C10_LicsetOnlyToModernVendor ==
    \A k \in 1..Len(vendors) :
        (\E i \in 1..Len(VendorLog(k)) : IsSend(VendorLog(k)[i], "LICSET"))
            => /\ HelloReplies(vendors[k].sock) # {}
               /\ ~VersionIsOld(FirstHelloReply(vendors[k].sock).ver)

\* the vendor field of a HELLO request: ten bytes after the user and host fields
HelloVendor(req) == RStrip(Slice(req, 58, 68), {0})

\* what was sent on the manager's connections, the dialed one and then the
\* one query_server opened
MgrSends ==
    SelectSeq(conns[1].log \o (IF FirstHelloDone THEN conns[2].log ELSE <<>>),
              LAMBDA ev : ev.op = "send")

\* whether the k-th message of the manager is the one query_everything
\* sends in that place
MgrSendInPlace(ev, k) ==
    IF k <= 2 THEN IsSend(ev, "HELLO") /\ HelloVendor(ev.arg) = <<>>
    ELSE IF k = 3 THEN IsSend(ev, "REQ") /\ ev.arg = Cmd_getpaths
    ELSE IF k = 4 THEN IsSend(ev, "REQ") /\ ev.arg = <<>>
    ELSE IF k = 5 THEN IsSend(ev, "REQ") /\ ev.arg = Cmd_dlist
    ELSE /\ "vendors" \in mgr.params.keys
         /\ k - 5 <= Len(mgr.params.vendors)
         /\ IsSend(ev, "HELLO")
         /\ HelloVendor(ev.arg) = mgr.params.vendors[k - 5]

\* C11: the messages on the manager connection are, in this order, HELLO
\* with an empty vendor (once more after the reconnect), REQ getpaths, REQ
\* with no command, REQ dlist, and one HELLO naming each vendor of the dlist
\* reply in the order listed; a vendor connection is opened only after the
\* dlist reply is in and that vendor's redirect is recorded.
C11_ManagerMessageOrder ==
    /\ \A k \in 1..Len(MgrSends) : MgrSendInPlace(MgrSends[k], k)
    /\ \A k \in 1..Len(vendors) :
        /\ "vendors" \in mgr.params.keys
        /\ vendors[k].vendor \in DOMAIN redirects
        /\ Len(MgrSends) = 5 + Len(mgr.params.vendors)
        /\ vendors[k].sock > 2

\* the sweep has ended with two vendors named and all seven messages sent
C11_Witness ==
    /\ pc = "done"
    /\ Len(mgr.params.vendors) = 2
    /\ Len(MgrSends) = 7
    /\ Len(vendors) = 2

\* C12 as stated: the first message on every vendor connection is a HELLO
\* whose vendor field is empty.
C12_VendorHelloIsAnonymous ==
    \A k \in 1..Len(vendors) :
        /\ IsSend(VendorLog(k)[1], "HELLO")
        /\ HelloVendor(VendorLog(k)[1].arg) = <<>>

\* C12 as the code has it: the first message on every vendor connection is a
\* HELLO whose vendor field holds the name of the vendor the connection was
\* opened for, the name whose redirect gave the connection's host and port.
C12_VendorHelloNamesVendor ==
    \A k \in 1..Len(vendors) :
        /\ IsSend(VendorLog(k)[1], "HELLO")
        /\ HelloVendor(VendorLog(k)[1].arg) # <<>>
        /\ HelloVendor(VendorLog(k)[1].arg) \in DOMAIN redirects
        /\ redirects[HelloVendor(VendorLog(k)[1].arg)]
                = [hostname |-> conns[vendors[k].sock].host, port |-> conns[vendors[k].sock].port]

\* two vendor connections were opened and greeted
C12_Witness ==
    /\ Len(vendors) = 2
    /\ \A k \in 1..2 : Len(VendorLog(k)) >= 2 /\ VendorLog(k)[2].op = "recv" /\ VendorLog(k)[2].ok

\* the names of the dlist reply
ListedNames == {mgr.params.vendors[i] : i \in 1..Len(mgr.params.vendors)}

\* the places of the manager's history where a HELLO naming n was sent
RedirectAsked(n) ==
    {i \in 1..Len(conns[mgr.sock].log) :
        /\ IsSend(conns[mgr.sock].log[i], "HELLO")
        /\ HelloVendor(conns[mgr.sock].log[i].arg) = n}

\* the reply to the HELLO sent at place i of the manager's history
RedirectReply(i) == conns[mgr.sock].log[i + 1]

\* the vendor clients opened for the name n
ClientsOf(n) == {k \in 1..Len(vendors) : vendors[k].vendor = n}

\* C13: when query_everything returns normally the manager connection is
\* still open and each name of the dlist reply has exactly one vendor
\* connection, opened to the host and port of the STUBR reply to the HELLO
\* for that name (the last such reply when the name is listed twice); no
\* other vendor connection exists.
C13_OneConnectionPerListedName ==
    pc = "done" =>
        /\ conns[mgr.sock].open
        /\ Len(vendors) = Cardinality(ListedNames)
        /\ \A n \in ListedNames :
            /\ Cardinality(ClientsOf(n)) = 1
            /\ \A k \in ClientsOf(n) : \E i \in RedirectAsked(n) :
                /\ \A j \in RedirectAsked(n) : j <= i
                /\ RedirectReply(i).type = TYPE_STUBR
                /\ conns[vendors[k].sock].host = RedirectReply(i).host
                /\ conns[vendors[k].sock].port = RedirectReply(i).port
                /\ vendors[k].server = RedirectReply(i).host
                /\ vendors[k].port = RedirectReply(i).port

\* a sweep has returned with two names listed, each with a port of its own
C13_Witness ==
    /\ pc = "done"
    /\ Cardinality(ListedNames) = 2
    /\ \E k1, k2 \in 1..Len(vendors) : conns[vendors[k1].sock].port # conns[vendors[k2].sock].port

\* a sweep has returned for a list that names one vendor twice
C13_WitnessListedTwice ==
    /\ pc = "done"
    /\ Len(mgr.params.vendors) = 2
    /\ Cardinality(ListedNames) = 1
    /\ Cardinality(RedirectAsked(VendorA)) = 2

\* the keys a finished status query leaves in lic.status
StatusKeys == {"used", "total", "timestamp", "usage"}

\* every license of every vendor client has its status filled in
AllPopulated ==
    \A k \in 1..Len(vendors) : \A r \in 1..Len(Inventory(vendors[k])) :
        /\ StatusKeys \subseteq Inventory(vendors[k])[r].status.keys
        /\ Len(Inventory(vendors[k])[r].status.usage) = Inventory(vendors[k])[r].status.used

\* whether the sweep has a next step
HasStep == ENABLED Next

\* C14: whenever query_everything returns normally every license of every
\* vendor has a status holding used, total, timestamp and usage; a sweep
\* that has stopped anywhere else has stopped in a raised error.
C14_ReturnedMeansPopulated ==
    /\ pc = "done" => AllPopulated /\ err = ""
    /\ (pc # "done" /\ ~HasStep) => (pc = "error" /\ err # "")

\* a sweep has returned with a vendor that holds two licenses or more, one
\* of them in use
C14_Witness ==
    /\ pc = "done"
    /\ \E k \in 1..Len(vendors) :
        /\ Len(Inventory(vendors[k])) >= 2
        /\ \E r \in 1..Len(Inventory(vendors[k])) : Inventory(vendors[k])[r].status.used >= 1

\* a sweep has stopped in an error with a license left unqueried
C14_WitnessRaised ==
    /\ pc = "error"
    /\ ~AllPopulated

\* the last read of connection c met a frame with an unexpected first byte or
\* with check bytes that do not match
FramingFailed(c) ==
    /\ conns[c].log # <<>>
    /\ conns[c].log[Len(conns[c].log)].op = "recv"
    /\ ~conns[c].log[Len(conns[c].log)].ok

\* C17 as stated: after a fatal framing error on a connection that
\* connection is closed.
C17_ClosedAfterFramingError ==
    \A c \in 1..Len(conns) : FramingFailed(c) => ~conns[c].open

\* the half of C17 that the code keeps: a framing error is the last event of
\* its connection, nothing is sent or read on it afterwards (the sweep has
\* ended in the error)
C17_NothingAfterFramingError ==
    \A c \in 1..Len(conns) : \A i \in 1..Len(conns[c].log) :
        (conns[c].log[i].op = "recv" /\ ~conns[c].log[i].ok)
            => (i = Len(conns[c].log) /\ pc = "error")

\* the total length a returned modern frame declares in its bytes 4..6
DeclaredLength == UnpackH(Slice(q.response, 4, 6))
\* _query has returned a modern frame
ReturnedModern == q.pc = "returned" /\ q.response[1] = PREFIX_MODERN

\* C15 as stated: for a modern frame that declares the total length L,
\* _query consumes exactly L bytes of the stream and returns exactly those,
\* whatever L is, also below the 20 bytes of the header.
C15_ConsumesDeclaredLength ==
    ReturnedModern =>
        /\ q.consumed = DeclaredLength
        /\ Len(q.response) = DeclaredLength

\* the part of C15 that the code keeps: from L = 20 on, _query consumes and
\* returns exactly the L bytes declared
C15_ConsumesDeclaredLengthFrom20 ==
    (ReturnedModern /\ DeclaredLength >= 20) =>
        /\ q.consumed = DeclaredLength
        /\ Len(q.response) = DeclaredLength

\* what the code does below 20: it returns the 20 bytes it has read
C15_ShortLengthTakesTwenty ==
    (ReturnedModern /\ DeclaredLength < 20) =>
        /\ q.consumed = 20
        /\ Len(q.response) = 20

\* C16 as stated: once recv has returned no bytes (the peer has closed) with
\* the frame incomplete, the read has ended in an error; it does not go on
\* asking for bytes.
C16_TruncatedReadRaises ==
    q.empties > 0 => q.pc = "raised"

\* the types of the frames the client writes: request, _stub, query_vendor_licenses,
\* _query_license_status
WrittenTypes == {TYPE_REQ, TYPE_STUB, TYPE_LICSET, TYPE_REQLIC}

\* the buffer is _header_create(b, t) + b for a written type t and a body b
IsWrittenFrame ==
    /\ Len(response) >= HEADERLEN
    /\ UnpackH(Slice(response, 6, 8)) \in WrittenTypes
    /\ \E ts \in 0..MaxTimestamp :
        response = _header_create(SliceFrom(response, HEADERLEN),
                                  UnpackH(Slice(response, 6, 8)), ts)
                   \o SliceFrom(response, HEADERLEN)

\* C18 as stated: the bytes _header_create(b, t) + b of every written type t
\* are accepted by the parser and yield a frame of type t with body b.
C18_WrittenFrameRoundTrip ==
    (parsed # Pending /\ IsWrittenFrame) =>
        /\ ~parsed.err
        /\ parsed.type = UnpackH(Slice(response, 6, 8))

\* the half of C18 that the code keeps: the check byte and CRC that
\* _header_create writes pass _header_validate
C18_WrittenCheckBytesPass ==
    IsWrittenFrame => _header_validate(response)

\* what the code does with every frame of a written type: the parser raises
C18_WrittenTypesRefused ==
    (parsed # Pending /\ IsWrittenFrame) => parsed.err

\* the pairs among the items, and the tokens that belong to no pair
PairsOf(items) == SelectSeq(items, LAMBDA it : it.key # <<>>)
LooseOf(items) == SelectSeq(items, LAMBDA it : it.key = <<>>)
\* no key stands twice on the line
DistinctKeys(items) ==
    \A i, j \in 1..Len(PairsOf(items)) :
        PairsOf(items)[i].key = PairsOf(items)[j].key => i = j

\* the license record holds each pair of the items under its lower-case key,
\* and the loose tokens, if any, under others
HoldsItems(lic, items) ==
    /\ \A i \in 1..Len(PairsOf(items)) :
        /\ Lower(PairsOf(items)[i].key) \in DOMAIN lic
        /\ lic[Lower(PairsOf(items)[i].key)] = PairsOf(items)[i].value
    /\ IF LooseOf(items) = <<>> THEN K_others \notin DOMAIN lic
       ELSE /\ K_others \in DOMAIN lic
            /\ lic[K_others] = [i \in 1..Len(LooseOf(items)) |-> LooseOf(items)[i].value]

\* C19 as stated: on an INCREMENT or FEATURE line every KEY=VALUE pair among
\* the trailing tokens yields its own entry, lower-case KEY to de-quoted
\* VALUE, wherever the pair stands; only tokens of no pair go to others.
C19_EachPairOwnEntry ==
    (fl.called /\ DistinctKeys(fl.items)) =>
        /\ ~fl.result.err
        /\ Len(fl.result.licenses) = 1
        /\ HoldsItems(fl.result.licenses[1], fl.items)

\* whether the line starts its trailing tokens with a pair that another pair
\* follows at once
PairThenPair(items) ==
    Len(items) >= 2 /\ items[1].key # <<>> /\ items[2].key # <<>>

\* what the code keeps of C19: the pairs and loose tokens are told apart as
\* claimed on every line whose first trailing pair, if it stands first, is
\* not followed at once by another pair
C19_OwnEntryUnlessPairThenPair ==
    (fl.called /\ DistinctKeys(fl.items) /\ ~PairThenPair(fl.items)) =>
        /\ ~fl.result.err
        /\ Len(fl.result.licenses) = 1
        /\ HoldsItems(fl.result.licenses[1], fl.items)

\* what the code makes of SIGN=S NOTICE="n A": the second pair becomes part
\* of the first value and its key a loose token
C19_SecondPairSwallowed ==
    (fl.called /\ fl.items = <<PairSign, PairNotice>>) =>
        /\ fl.result.licenses[1][K_sign] = <<83, 61, 34, 110, 32, 65, 34>>
        /\ K_notice \notin DOMAIN fl.result.licenses[1]
        /\ fl.result.licenses[1][K_others] = << <<78, 79, 84, 73, 67, 69>> >>

\* the vendor client whose catalog is being read
CatalogClient == vendors[Len(vendors)]

\* C20 as stated: when the text of one license set of a catalog cannot be
\* parsed the failure stays with that set: the sweep is not ended by it,
\* and the other sets of the reply are created.
C20_BrokenSetDoesNotAbort ==
    err = "license_set" =>
        /\ pc # "error"
        /\ CatalogClient.license_sets # <<>>

\* what the code does: the exception of flexnet_parse ends the sweep with no
\* license set of the reply created, no license of the vendor queried and
\* the vendors that remain never reached
C20_BrokenSetEndsSweep ==
    err = "license_set" =>
        /\ pc = "error"
        /\ CatalogClient.license_sets = <<>>
        /\ CatalogClient.licenses = <<>>
        /\ \A i \in 1..Len(VendorLog(Len(vendors))) : ~IsSend(VendorLog(Len(vendors))[i], "REQLIC")

\* _query has returned a frame that starts with 0x4e
ReturnedTerm == q.pc = "returned" /\ q.response[1] = PREFIX_TERM

ReturnedChunks ==
    /\ q.pc = "returned"
    /\ q.response[1] = PREFIX_CHUNK
    /\ Len(q.response) % 147 = 0

\* the i-th 147-byte chunk of the wire
WireChunk(i) == SubSeq(q.wire, 147 * (i - 1) + 1, 147 * i)

\* bytes 13..147 of the first n chunks of the wire, in order
WirePayload(n) ==
    [j \in 1..(134 * n) |-> q.wire[147 * ((j - 1) \div 134) + 13 + ((j - 1) % 134) + 1]]

C22_WitnessTwoChunks ==
    /\ ReturnedChunks
    /\ Len(q.response) = 2 * 147
    /\ _length_remaining(WireChunk(1)) = 135

\* the types the parser has a branch of its own for
BranchTypes == {TYPE_HELLO, TYPE_STUBR, TYPE_STUB2, TYPE_REQLIC1, TYPE_REQLIC2}

\* the buffer is a modern frame whose check byte and CRC are right and whose
\* type has no branch of its own in the parser
ValidOtherFrame ==
    /\ Len(response) >= HEADERLEN
    /\ response[1] = PREFIX_MODERN
    /\ _header_validate(response)
    /\ UnpackH(Slice(response, 6, 8)) \notin BranchTypes

\* C23 as stated: every checksum-valid modern frame of a type other than
\* HELLO, STUBR, STUB2, REQLIC1, REQLIC2 parses, and its text is the body
\* split on null bytes with the empty fields dropped.
C23_OtherTypesParseAsText ==
    (parsed # Pending /\ ValidOtherFrame) =>
        /\ ~parsed.err
        /\ parsed.text = NonEmpty(Split(SliceFrom(response, HEADERLEN), 0))

\* the part of C23 the code keeps: a checksum-valid RESP frame of 24 bytes
\* or more parses, and its text is what follows its 24-byte header, split
\* on null bytes with the empty fields dropped
C23_RespParsesAsText ==
    (parsed # Pending /\ ValidOtherFrame /\ Len(response) >= 24
        /\ UnpackH(Slice(response, 6, 8)) = TYPE_RESP) =>
        /\ ~parsed.err
        /\ parsed.text = NonEmpty(Split(SliceFrom(response, 24), 0))

\* what the code does with a checksum-valid frame whose type has no entry
\* in HEADERLENS: the header length lookup raises
C23_UnlistedTypesRefused ==
    (parsed # Pending /\ ValidOtherFrame
        /\ UnpackH(Slice(response, 6, 8)) \notin DOMAIN HEADERLENS) => parsed.err

\* a checksum-valid RESP frame was parsed into its two text fields
C23_WitnessResp ==
    /\ parsed # Pending
    /\ ValidOtherFrame
    /\ UnpackH(Slice(response, 6, 8)) = TYPE_RESP
    /\ ~parsed.err
    /\ Len(parsed.text) = 2

\* a checksum-valid frame of type REQ was refused
C23_WitnessRefused ==
    /\ parsed # Pending
    /\ ValidOtherFrame
    /\ UnpackH(Slice(response, 6, 8)) = TYPE_REQ
    /\ parsed.err

\* the non-blank fields of the catalog reply of the call
CatalogText == SelectSeq(cat.fields, LAMBDA x : ~IsBlank(x))

\* the license set is the one made of the eight fields, taken under the keys
\* fid, sig, names, date1, date2, fid, url, license_text in that order
BuiltFrom(set, fields) ==
    /\ set.fid = fields[6]
    /\ set.sig = fields[2]
    /\ set.names = fields[3]
    /\ set.date1 = fields[4]
    /\ set.date2 = fields[5]
    /\ set.url = fields[7]
    /\ set.licenses = Licenses(flexnet_parse(fields[8]).licenses)

\* floor(n/8) license sets were appended to those held before, the k-th made
\* of fields 8k..8k+7, and the sets held before are as they were
AppendedEighths ==
    LET n == Len(CatalogText)
        held == Len(cat.before)
    IN  /\ Len(cat.license_sets) = held + (n \div 8)
        /\ SubSeq(cat.license_sets, 1, held) = cat.before
        /\ \A k \in 1..(n \div 8) :
            BuiltFrom(cat.license_sets[held + k], SubSeq(CatalogText, 8 * k - 7, 8 * k))

\* C24 as stated: for every STUB2 catalog reply with n non-blank text fields
\* query_vendor_licenses appends exactly floor(n/8) license sets, the k-th
\* built from fields 8k..8k+7 in the key order fid, sig, names, date1, date2,
\* fid, url, license_text, and leaves the sets already present unchanged.
C24_AppendsFloorOfEighth ==
    cat.pc \in {"returned", "raised"} => AppendedEighths

\* the part of C24 the code keeps: when the number of non-blank fields is a
\* multiple of 8 and every license text parses, the call returns with those
\* sets appended
C24_WholeRecordsAppended ==
    (cat.pc \in {"returned", "raised"} /\ Len(CatalogText) % 8 = 0
        /\ \A k \in 1..(Len(CatalogText) \div 8) : ~flexnet_parse(CatalogText[8 * k]).err) =>
        /\ cat.pc = "returned"
        /\ AppendedEighths

\* what the code does when the number of non-blank fields is no multiple of
\* 8: the fill loop indexes past the last dict, the call raises and no set
\* is appended
C24_PartialRecordRaises ==
    (cat.pc \in {"returned", "raised"} /\ Len(CatalogText) % 8 # 0) =>
        /\ cat.pc = "raised"
        /\ cat.license_sets = cat.before

\* two sets were appended behind one held before, from a reply of 16 fields
\* and a blank one
C24_WitnessTwoSets ==
    /\ cat.pc = "returned"
    /\ Len(cat.fields) = 17
    /\ Len(CatalogText) = 16
    /\ Len(cat.before) = 1
    /\ Len(cat.license_sets) = 3

\* a reply of 9 non-blank fields made the call raise
C24_WitnessNine ==
    /\ cat.pc = "raised"
    /\ Len(CatalogText) = 9
    /\ flexnet_parse(CatalogText[8]).err = FALSE

\* a HELLO reply was read on the connection before the i-th event of its log
HelloReplyBefore(c, i) ==
    \E j \in 1..(i - 1) :
        /\ conns[c].log[j].op = "recv"
        /\ conns[c].log[j].ok
        /\ conns[c].log[j].type = TYPE_HELLO

\* the events of the connection that are REQ commands
ReqsSent(c) == {i \in 1..Len(conns[c].log) : IsSend(conns[c].log[i], "REQ")}

\* C25 as stated: no REQ command is sent on a manager connection before a
\* HELLO reply has been read on that connection; request() on a client whose
\* query_server has not completed sends nothing.
C25_NoReqBeforeHelloReply ==
    \A c \in 1..Len(conns) : \A i \in ReqsSent(c) : HelloReplyBefore(c, i)

\* the part of C25 the code keeps: request() sends nothing until the first
\* HELLO reply of query_server has been recorded, and once query_server has
\* returned the HELLO has been repeated and answered on the new connection
C25_NoReqBeforeFirstHello ==
    /\ (\E c \in 1..Len(conns) : ReqsSent(c) # {}) => FirstHelloDone
    /\ pc = "license_file_path" =>
          HelloReplyBefore(mgr.sock, Len(conns[mgr.sock].log) + 1)
    /\ pc = "license_file_path" =>
          \A i \in ReqsSent(mgr.sock) : HelloReplyBefore(mgr.sock, i)

\* request() was called before query_server: it raised and nothing was sent
C25_WitnessRefused ==
    /\ pc = "query_server"
    /\ err = "request"
    /\ conns[1].log = <<>>

\* query_server raised in its second hello(), and request() then sent a REQ
\* command on the new connection
C25_WitnessReqAfterFailedHello ==
    /\ pc = "error"
    /\ Len(conns) = 2
    /\ ReqsSent(2) # {}
    /\ ~HelloReplyBefore(2, Len(conns[2].log) + 1)

\* _query has returned a legacy response: chunks of 0x4c, or a 0x4e frame
ReturnedLegacy ==
    /\ q.pc = "returned"
    /\ q.response[1] \in {PREFIX_CHUNK, PREFIX_TERM}

\* the number of 147-byte frames the returned bytes reach into
FramesTouched == (Len(q.response) + 146) \div 147

\* C26 as stated: however the transport cuts a legacy byte stream into
\* pieces, _query returns the frames as they stand on the wire, every chunk
\* a full 147 bytes, chunks read exactly while the one before declares more
\* than 134, and the bytes behind them are left unread.
C26_LegacyFramesWhateverTheCut ==
    (ReturnedLegacy /\ Len(q.wire) >= 147 * FramesTouched) =>
        LET n == FramesTouched
        IN  /\ Len(q.response) = 147 * n
            /\ q.response = SubSeq(q.wire, 1, 147 * n)
            /\ q.stream = SubSeq(q.wire, 147 * n + 1, Len(q.wire))
            /\ q.response[1] = PREFIX_TERM => n = 1
            /\ q.response[1] = PREFIX_CHUNK =>
                /\ \A i \in 1..(n - 1) : _length_remaining(WireChunk(i)) > 134
                /\ _length_remaining(WireChunk(n)) <= 134

\* the part of C26 the code keeps: the bytes returned are the bytes that
\* were taken from the stream, in order, and what was not taken is left;
\* a modern frame declaring 20 bytes or more comes back whole however its
\* bytes were cut
C26_NothingLostOrReordered ==
    q.pc = "returned" =>
        /\ q.response = SubSeq(q.wire, 1, q.consumed)
        /\ q.stream = SubSeq(q.wire, q.consumed + 1, Len(q.wire))
        /\ (q.response[1] = PREFIX_MODERN /\ DeclaredLength >= 20) =>
              Len(q.response) = DeclaredLength

\* what the code does when the one recv(147-1) behind a legacy prefix comes
\* back short with the frame on its way: it goes on with the bytes it has
C26_ShortFirstRecvCutsFrame ==
    (ReturnedLegacy /\ Len(q.wire) >= 147 /\ Len(q.response) < 147) =>
        /\ q.short
        /\ q.consumed = Len(q.response)
        /\ Len(q.stream) = Len(q.wire) - Len(q.response)

\* a first chunk declaring 200 came in two pieces: the first 3 bytes were
\* returned as the response, the length read from them being 2
C26_WitnessCutChunk ==
    /\ ReturnedLegacy
    /\ q.response[1] = PREFIX_CHUNK
    /\ Len(q.wire) >= 2 * 147
    /\ Len(q.response) = 3
    /\ q.left = 2

\* a modern frame cut into pieces came back whole
C26_WitnessModernWhole ==
    /\ q.pc = "returned"
    /\ q.response[1] = PREFIX_MODERN
    /\ q.short
    /\ DeclaredLength = 26
    /\ Len(q.response) = 26

====
